---- MODULE Spec2Model ----
(***************************************************************************)
(* Feed checker / feed fixer: specification detection, multi-path field    *)
(* readers, URL validation.                                                *)
(*                                                                         *)
(* Data representation                                                     *)
(*   text      a sequence of Unicode code points (<<>> is "" and also the  *)
(*             None text of an empty element: the code always reads        *)
(*             (n.text or ""))                                             *)
(*   tag       [ns, local]: the Clark name {ns}local; ns = "" is no        *)
(*             namespace; GNS, ATOMNS, CONTENTNS are the three URIs of NS  *)
(*   element   [tag, text, attrib, children]; attrib is a sequence of      *)
(*             <<name, text>> pairs, children a sequence of elements       *)
(*   path      an ElementPath string, parsed: [desc, steps, attr] where    *)
(*             desc is the leading ".//" (otherwise "./"), steps the name  *)
(*             tests (each with an optional [@a='v'] predicate) and attr   *)
(*             the trailing "/@attr" ("" when there is none); a bare       *)
(*             "@attr" has no steps                                        *)
(***************************************************************************)
EXTENDS Integers, Sequences, FiniteSets, TLC

\* feed_bytes, out      analyze_feed: the uploaded document and the report
\* detected_spec        feed_specs.detect_spec: the name it returns
\* arg, ret             one call of a field reader: its arguments and result
\* url_arg, issues       one call of find_url_issues: its argument and result
VARIABLES feed_bytes, out, detected_spec, arg, ret, url_arg, issues

vars == <<feed_bytes, out, detected_spec, arg, ret, url_arg, issues>>

(***************************************************************************)
(* Names and namespaces                                                    *)
(***************************************************************************)
GNS == "http://base.google.com/ns/1.0"
ATOMNS == "http://www.w3.org/2005/Atom"
CONTENTNS == "http://purl.org/rss/1.0/modules/content/"

\* Python None where an element, a list or a dict is expected
None == [none |-> TRUE]
\* Python None where a str is expected (no code point is negative)
NoText == <<-1>>

\* str.lower() on the element and attribute names that occur in the model
lower(s) ==
    CASE s = "Item" -> "item"
      [] s = "ITEM" -> "item"
      [] s = "SHOPITEM" -> "shopitem"
      [] s = "Product" -> "product"
      [] s = "PRODUCT" -> "product"
      [] s = "O" -> "o"
      [] s = "Entry" -> "entry"
      [] s = "RSS" -> "rss"
      [] s = "SHOP" -> "shop"
      [] s = "ID" -> "id"
      [] s = "Id" -> "id"
      [] s = "ITEM_ID" -> "item_id"
      [] s = "URL" -> "url"
      [] s = "Url" -> "url"
      [] s = "IMGURL" -> "imgurl"
      [] s = "PRODUCTNAME" -> "productname"
      [] s = "AVAILABILITY" -> "availability"
      [] s = "DELIVERY" -> "delivery"
      [] s = "AVAILABILITY_DESC" -> "availability_desc"
      [] s = "DELIVERY_DATE" -> "delivery_date"
      [] s = "Delivery_time" -> "delivery_time"
      [] s = "Identifier" -> "identifier"
      [] s = "ProductId" -> "productid"
      [] s = "Product_url" -> "product_url"
      [] s = "Image_url" -> "image_url"
      [] s = "Image" -> "image"
      [] s = "Name" -> "name"
      [] s = "Price" -> "price"
      [] s = "Price_With_Vat" -> "price_with_vat"
      [] s = "PRICE_WITH_VAT" -> "price_with_vat"
      [] s = "mainImage" -> "mainimage"
      [] s = "Gallery" -> "gallery"
      [] s = "Images" -> "images"
      [] s = "IMGURL_ALTERNATIVE" -> "imgurl_alternative"
      [] s = "DESCRIPTION" -> "description"
      [] s = "Description" -> "description"
      [] s = "PRICE_VAT" -> "price_vat"
      [] s = "MANUFACTURER" -> "manufacturer"
      [] s = "Manufacturer" -> "manufacturer"
      [] s = "PRODUCTNO" -> "productno"
      [] s = "EAN" -> "ean"
      [] s = "ITEMGROUP_ID" -> "itemgroup_id"
      [] s = "ItemGroupId" -> "itemgroupid"
      [] s = "Category" -> "category"
      [] s = "TITLE" -> "title"
      [] s = "Title" -> "title"
      [] s = "NAME" -> "name"
      [] s = "PRICE" -> "price"
      [] s = "Brand" -> "brand"
      [] s = "Availability" -> "availability"
      [] s = "ProductUrl" -> "producturl"
      [] s = "Code" -> "code"
      [] OTHER -> s

\* strip_ns on a Clark name: the part after '}'
strip_ns(tag) == tag.local

T(local) == [ns |-> "", local |-> local]
G(local) == [ns |-> GNS, local |-> local]
A(local) == [ns |-> ATOMNS, local |-> local]
C(local) == [ns |-> CONTENTNS, local |-> local]

(***************************************************************************)
(* Text                                                                    *)
(***************************************************************************)
\* str.isspace() for one code point
isspace(c) ==
    c \in {9, 10, 11, 12, 13, 28, 29, 30, 31, 32, 133, 160, 5760, 8232, 8233, 8239, 8287, 12288}
       \cup (8192..8202)

RECURSIVE lstrip(_)
lstrip(s) ==
    IF s # <<>> /\ isspace(Head(s)) THEN lstrip(Tail(s)) ELSE s

RECURSIVE rstrip(_)
rstrip(s) ==
    IF s # <<>> /\ isspace(s[Len(s)]) THEN rstrip(SubSeq(s, 1, Len(s) - 1)) ELSE s

\* str.strip()
strip(s) == rstrip(lstrip(s))

(***************************************************************************)
(* ElementTree                                                             *)
(***************************************************************************)
Elem(tag, text, attrib, children) ==
    [tag |-> tag, text |-> text, attrib |-> attrib, children |-> children]

Leaf(tag, text) == Elem(tag, text, <<>>, <<>>)

RECURSIVE Flatten(_)
Flatten(ss) ==
    IF ss = <<>> THEN <<>> ELSE Head(ss) \o Flatten(Tail(ss))

\* Element.iter(): the element and its descendants, in document order
RECURSIVE iter(_)
iter(e) ==
    <<e>> \o Flatten([i \in 1..Len(e.children) |-> iter(e.children[i])])

\* Element.get(name): the attribute's value, None when absent
RECURSIVE attrib_get(_, _)
attrib_get(attrib, name) ==
    IF attrib = <<>> THEN NoText
    ELSE IF Head(attrib)[1] = name THEN Head(attrib)[2]
    ELSE attrib_get(Tail(attrib), name)

get(e, name) == attrib_get(e.attrib, name)

\* (x or "") for a text or None
or_empty(x) == IF x = NoText THEN <<>> ELSE x

\* one ElementPath step: tag test plus the optional [@a='v'] predicate
StepMatches(e, step) ==
    /\ e.tag = step.tag
    /\ step.pred # <<>> => get(e, step.pred[1]) = step.pred[2]

\* children of every element of ctx that match step, in document order
SelectChildren(ctx, step) ==
    Flatten([i \in 1..Len(ctx) |->
        SelectSeq(ctx[i].children, LAMBDA c : StepMatches(c, step))])

RECURSIVE WalkSteps(_, _)
WalkSteps(ctx, steps) ==
    IF steps = <<>> THEN ctx
    ELSE WalkSteps(SelectChildren(ctx, Head(steps)), Tail(steps))

\* Element.findall(path): "./a/b" walks children; ".//a" selects every
\* descendant (never the element itself) that matches a
findall(e, path) ==
    IF path.desc
    THEN WalkSteps(SelectSeq(Tail(iter(e)), LAMBDA d : StepMatches(d, Head(path.steps))),
                   Tail(path.steps))
    ELSE WalkSteps(<<e>>, path.steps)

\* Element.find(path): the first match, None when there is none
find(e, path) ==
    LET all == findall(e, path) IN IF all = <<>> THEN None ELSE Head(all)

\* bool(element): an Element is a sequence of its children, false when empty
truthy(e) == e # None /\ e.children # <<>>

St(tag) == [tag |-> tag, pred |-> <<>>]
\* "./tag"
P(tag) == [desc |-> FALSE, steps |-> <<St(tag)>>, attr |-> ""]
\* "./t1/t2"
P2(t1, t2) == [desc |-> FALSE, steps |-> <<St(t1), St(t2)>>, attr |-> ""]
\* ".//tag"
D(tag) == [desc |-> TRUE, steps |-> <<St(tag)>>, attr |-> ""]
\* "@attr"
At(attr) == [desc |-> FALSE, steps |-> <<>>, attr |-> attr]
\* path + "/@attr"
WithAttr(path, attr) == [path EXCEPT !.attr = attr]
\* "./tag[@a='v']"
PPred(tag, a, v) == [desc |-> FALSE, steps |-> <<[tag |-> tag, pred |-> <<a, v>>]>>, attr |-> ""]

(***************************************************************************)
(* Generic list helpers                                                    *)
(***************************************************************************)
Range(s) == {s[i] : i \in 1..Len(s)}

Max(a, b) == IF a >= b THEN a ELSE b
Min(a, b) == IF a <= b THEN a ELSE b

\* s[:k]
Take(s, k) == SubSeq(s, 1, Min(Len(s), k))

\* sum(1 for x in s if Test(x))
Count(s, Test(_)) == Len(SelectSeq(s, Test))

\* list.sort(key=..., reverse=True) / sorted(..., reverse=True) on a list of
\* <<key, value>> pairs: stable, so equal keys keep their original order
SortDesc(s) ==
    LET n == Len(s)
        before(j, i) == s[j][1] > s[i][1] \/ (s[j][1] = s[i][1] /\ j < i)
        rank(i) == Cardinality({j \in 1..n : before(j, i)})
    IN  [p \in 1..n |-> s[CHOOSE i \in 1..n : rank(i) = p - 1]]

\* round(num/den, digits) scaled to an integer: the nearest integer to
\* num/den, an exact half going to the even neighbour
RoundHalfEven(num, den) ==
    LET q == num \div den
        r2 == 2 * (num % den)
    IN  IF r2 < den THEN q
        ELSE IF r2 > den THEN q + 1
        ELSE IF q % 2 = 0 THEN q ELSE q + 1

(***************************************************************************)
(* feed_checker_gui.py: helpers                                            *)
(***************************************************************************)
iter_local_children_tags(elem) ==
    [i \in 1..Len(elem.children) |-> lower(strip_ns(elem.children[i].tag))]

SampleLimit == 200

union_child_localnames(items) ==
    UNION {Range(iter_local_children_tags(it)) : it \in Range(Take(items, SampleLimit))}

\* jaccard as the fraction <<numerator, denominator>>
jaccard(a, b) ==
    IF a = {} /\ b = {} THEN <<1, 1>>
    ELSE IF a = {} \/ b = {} THEN <<0, 1>>
    ELSE <<Cardinality(a \cap b), Cardinality(a \cup b)>>

\* get_text: the stripped text of the first path whose first match has
\* non-blank text; None when no path has one
RECURSIVE get_text(_, _)
get_text(elem, paths) ==
    IF paths = <<>> THEN NoText
    ELSE LET found == find(elem, Head(paths))
         IN  IF found # None /\ strip(found.text) # <<>>
             THEN strip(found.text)
             ELSE get_text(elem, Tail(paths))

atom_entry_items_getter(root) ==
    SelectSeq(iter(root), LAMBDA e : lower(strip_ns(e.tag)) = "entry")

\* "base.google.com/ns/1.0" in tag
has_google_fragment(tag) == tag.ns = GNS

(***************************************************************************)
(* feed_checker_gui.py: detectors                                          *)
(***************************************************************************)
detect_google_rss(root) ==
    IF lower(strip_ns(root.tag)) # "rss" THEN FALSE
    ELSE LET has_item == \E e \in Range(iter(root)) : lower(strip_ns(e.tag)) = "item"
             has_g == \E e \in Range(iter(root)) : has_google_fragment(e.tag)
         IN  has_item /\ has_g

detect_google_atom(root) ==
    IF lower(strip_ns(root.tag)) # "feed" THEN FALSE
    ELSE IF ~(\E e \in Range(iter(root)) : has_google_fragment(e.tag)) THEN FALSE
    ELSE Len(atom_entry_items_getter(root)) > 0

detect_heureka(root) == find(root, D(T("SHOPITEM"))) # None

detect_compari_ci(root) ==
    LET products == findall(root, D(T("product")))
        needed_any == {"identifier", "productid"}
        needed_all == {"name", "product_url", "price", "image_url"}
    IN  IF products = <<>> THEN FALSE
        ELSE \E p \in Range(products) :
                LET tags == Range(iter_local_children_tags(p))
                IN  (needed_any \cap tags) # {} /\ needed_all \subseteq tags

\* faulty variant: the link is looked up under the name "url"
detect_skroutz_url(root) ==
    LET products == findall(root, D(T("product")))
    IN  IF products = <<>> THEN FALSE
        ELSE \E p \in Range(products) :
                {"price_with_vat", "image", "url"} \subseteq Range(iter_local_children_tags(p))

detect_skroutz_strict(root) ==
    LET products == findall(root, D(T("product")))
    IN  IF products = <<>> THEN FALSE
        ELSE \E p \in Range(products) :
                {"price_with_vat", "image", "link"} \subseteq Range(iter_local_children_tags(p))

detect_ceneje(root) ==
    find(root, D(T("Item"))) # None \/ find(root, D(T("item"))) # None

detect_ceneo(root) == find(root, D(T("o"))) # None

(***************************************************************************)
(* feed_checker_gui.py: SPECS                                              *)
(***************************************************************************)
GoogleRssName == "Google Merchant (g:) RSS"
GoogleAtomName == "Google Merchant (g:) Atom"
GoogleNoNsName == "Google Merchant (no-namespace) RSS"
HeurekaName == "Heureka strict"
\* the source spells the name with accented letters (Arukereso)
CompariName == "Compari / Arukereso / Pazaruvaj (case-insensitive)"
SkroutzName == "Skroutz strict"
CenejeName == "Jeftinije / Ceneje strict"
CeneoName == "Ceneo strict"

GoogleFragment == "base.google.com/ns/1.0"

XPathGetter(xpath) == [kind |-> "xpath", xpath |-> xpath]
AtomGetter == [kind |-> "atom_entry", xpath |-> None]

SPECS == <<
    [name |-> GoogleRssName,
     detect_fn |-> "detect_google_rss",
     items_getter |-> XPathGetter(D(T("item"))),
     id_xpath |-> <<P(G("id")), P(G("id"))>>,
     url_xpath |-> <<P(T("link")), P(G("link")), P(G("link"))>>,
     image_xpath |-> <<P(G("image_link")), P(G("image_link"))>>,
     required_item_children |-> <<"title", "description", "link", "image_link">>,
     availability_xpath |-> <<P(G("availability")), P(G("availability"))>>,
     availability_aliases |-> <<"availability">>,
     signature_tags |-> {"title", "description", "link", "id", "image_link", "price",
                         "availability", "brand", "mpn", "gtin", "condition",
                         "google_product_category", "product_type", "shipping"},
     expected_root_locals |-> <<"rss">>,
     required_ns_fragments |-> <<GoogleFragment>>],
    [name |-> GoogleAtomName,
     detect_fn |-> "detect_google_atom",
     items_getter |-> AtomGetter,
     id_xpath |-> <<P(G("id")), P(G("id"))>>,
     url_xpath |-> <<P(G("link")), P(G("link"))>>,
     image_xpath |-> <<P(G("image_link")), P(G("image_link"))>>,
     required_item_children |-> <<"id", "link", "image_link">>,
     availability_xpath |-> <<P(G("availability")), P(G("availability"))>>,
     availability_aliases |-> <<"availability">>,
     signature_tags |-> {"id", "title", "description", "link", "image_link", "price",
                         "availability", "brand", "mpn", "gtin", "condition",
                         "google_product_category", "product_type", "shipping"},
     expected_root_locals |-> <<"feed">>,
     required_ns_fragments |-> <<GoogleFragment>>],
    [name |-> HeurekaName,
     detect_fn |-> "detect_heureka",
     items_getter |-> XPathGetter(D(T("SHOPITEM"))),
     id_xpath |-> <<P(T("ITEM_ID"))>>,
     url_xpath |-> <<P(T("URL"))>>,
     image_xpath |-> <<P(T("IMGURL"))>>,
     required_item_children |-> <<"item_id", "productname", "url", "imgurl">>,
     availability_xpath |-> <<P(T("AVAILABILITY")), P(T("DELIVERY")), P(T("delivery")),
                              P(T("AVAILABILITY_DESC"))>>,
     availability_aliases |-> <<"availability", "delivery", "availability_desc">>,
     signature_tags |-> {"item_id", "productname", "description", "url", "imgurl", "price",
                         "manufacturer", "categorytext", "availability", "delivery",
                         "delivery_time"},
     expected_root_locals |-> <<"shop">>,
     required_ns_fragments |-> <<>>],
    [name |-> CompariName,
     detect_fn |-> "detect_compari_ci",
     items_getter |-> XPathGetter(D(T("product"))),
     id_xpath |-> <<P(T("Identifier")), P(T("identifier")), P(T("ProductId")),
                    P(T("productid")), P(T("id"))>>,
     url_xpath |-> <<P(T("Product_url")), P(T("product_url")), P(T("URL")), P(T("url")),
                     P(T("link"))>>,
     image_xpath |-> <<P(T("Image_url")), P(T("image_url")), P(T("image")), P(T("imgurl"))>>,
     required_item_children |-> <<"identifier|productid", "name", "product_url", "price",
                                  "image_url", "category", "description">>,
     availability_xpath |-> <<P(T("availability")), P(T("in_stock")), P(T("stock")),
                              P(T("availability_status"))>>,
     availability_aliases |-> <<"availability", "in_stock", "stock", "availability_status">>,
     signature_tags |-> {"identifier", "productid", "name", "product_url", "price",
                         "old_price", "image_url", "category", "category_full",
                         "manufacturer", "description", "delivery_time", "stock", "in_stock"},
     expected_root_locals |-> <<"products">>,
     required_ns_fragments |-> <<>>],
    [name |-> SkroutzName,
     detect_fn |-> "detect_skroutz_strict",
     items_getter |-> XPathGetter(D(T("product"))),
     id_xpath |-> <<P(T("id"))>>,
     url_xpath |-> <<P(T("link"))>>,
     image_xpath |-> <<P(T("image"))>>,
     required_item_children |-> <<"id", "name", "link", "image", "price_with_vat">>,
     availability_xpath |-> <<P(T("availability")), P(T("in_stock")), P(T("stock"))>>,
     availability_aliases |-> <<"availability", "in_stock", "stock">>,
     signature_tags |-> {"id", "name", "link", "image", "price_with_vat", "category",
                         "category_id", "brand", "availability"},
     expected_root_locals |-> <<"products">>,
     required_ns_fragments |-> <<>>],
    [name |-> CenejeName,
     detect_fn |-> "detect_ceneje",
     items_getter |-> XPathGetter(D(T("Item"))),
     id_xpath |-> <<P(T("ID")), P(T("id"))>>,
     url_xpath |-> <<P(T("link"))>>,
     image_xpath |-> <<P(T("mainImage")), P(T("image"))>>,
     required_item_children |-> <<"id", "name", "link", "mainimage|image", "price">>,
     availability_xpath |-> <<P(T("availability")), P(T("in_stock")), P(T("stock"))>>,
     availability_aliases |-> <<"availability", "in_stock", "stock">>,
     signature_tags |-> {"id", "name", "link", "mainimage", "image", "price", "brand",
                         "category", "availability", "description"},
     expected_root_locals |-> <<"items", "products", "shop">>,
     required_ns_fragments |-> <<>>],
    [name |-> CeneoName,
     detect_fn |-> "detect_ceneo",
     items_getter |-> XPathGetter(D(T("o"))),
     id_xpath |-> <<P(T("id"))>>,
     url_xpath |-> <<P(T("url"))>>,
     image_xpath |-> <<P2(T("imgs"), T("main")), P(T("image"))>>,
     required_item_children |-> <<"name", "price", "cat", "url">>,
     availability_xpath |-> <<P(T("availability")), P(T("stock")), P(T("avail"))>>,
     availability_aliases |-> <<"availability", "stock", "avail">>,
     signature_tags |-> {"id", "name", "price", "cat", "url", "imgs", "main", "desc",
                         "avail", "availability", "stock"},
     expected_root_locals |-> <<"offers">>,
     required_ns_fragments |-> <<>>]
>>

\* s.detect_fn(root)
detect_fn(s, root) ==
    CASE s.detect_fn = "detect_google_rss" -> detect_google_rss(root)
      [] s.detect_fn = "detect_google_atom" -> detect_google_atom(root)
      [] s.detect_fn = "detect_heureka" -> detect_heureka(root)
      [] s.detect_fn = "detect_compari_ci" -> detect_compari_ci(root)
      [] s.detect_fn = "detect_skroutz_strict" -> detect_skroutz_strict(root)
      [] s.detect_fn = "detect_ceneje" -> detect_ceneje(root)
      [] s.detect_fn = "detect_ceneo" -> detect_ceneo(root)

\* s.items_getter(root)
items_getter(s, root) ==
    IF s.items_getter.kind = "atom_entry" THEN atom_entry_items_getter(root)
    ELSE findall(root, s.items_getter.xpath)

\* [a.strip().lower() for a in req.split('|')]
req_aliases(req) ==
    CASE req = "identifier|productid" -> <<"identifier", "productid">>
      [] req = "mainimage|image" -> <<"mainimage", "image">>
      [] OTHER -> <<lower(req)>>

\* faulty variant: only a selector value counts, a child named by an alias
\* does not
has_availability_value(it, spec) ==
    get_text(it, spec.availability_xpath) # NoText

has_availability(it, spec) ==
    LET txt == get_text(it, spec.availability_xpath)
        child_locals_lower == Range(iter_local_children_tags(it))
    IN  IF txt # NoText THEN TRUE
        ELSE \E alias \in Range(spec.availability_aliases) : alias \in child_locals_lower

(***************************************************************************)
(* feed_checker_gui.py: URL validation                                     *)
(***************************************************************************)
\* " " in u
has_space(u) == \E i \in 1..Len(u) : u[i] = 32

\* any(ord(ch) > 127 for ch in u)
has_non_ascii(u) == \E i \in 1..Len(u) : u[i] > 127

MaxExamples == 20

\* faulty variant: the examples kept are the last MaxExamples
find_url_issues_tail(urls) ==
    LET spaces == SelectSeq(urls, LAMBDA u : u # <<>> /\ has_space(u))
        non_ascii == SelectSeq(urls, LAMBDA u : u # <<>> /\ has_non_ascii(u))
        Last(l) == IF Len(l) > MaxExamples
                   THEN SubSeq(l, Len(l) - MaxExamples + 1, Len(l)) ELSE l
    IN  [spaces |-> Last(spaces), non_ascii |-> Last(non_ascii)]

find_url_issues(urls) ==
    LET spaces == SelectSeq(urls, LAMBDA u : u # <<>> /\ has_space(u))
        non_ascii == SelectSeq(urls, LAMBDA u : u # <<>> /\ has_non_ascii(u))
    IN  [spaces |-> IF Len(spaces) > MaxExamples THEN Take(spaces, MaxExamples) ELSE spaces,
         non_ascii |-> IF Len(non_ascii) > MaxExamples THEN Take(non_ascii, MaxExamples)
                       ELSE non_ascii]

(***************************************************************************)
(* feed_checker_gui.py: closest-spec scoring                               *)
(* Rates are exact fractions; score is round(score, 2) in hundredths and   *)
(* the other rounded fields are in thousandths.                            *)
(***************************************************************************)
score_spec_for_diagnostics(root, spec) ==
    LET root_local == lower(strip_ns(root.tag))
        items == items_getter(spec, root)
        n_items == Len(items)
        union_tags == union_child_localnames(items)
        sig_sim == jaccard(union_tags, spec.signature_tags)
        reqs == spec.required_item_children
        req_hits == Count(reqs, LAMBDA req :
                        \E a \in Range(req_aliases(req)) : a \in union_tags)
        req_den == Max(Len(reqs), 1)
        sample == Take(items, SampleLimit)
        id_ok == Count(sample, LAMBDA it : get_text(it, spec.id_xpath) # NoText)
        url_ok == Count(sample, LAMBDA it : get_text(it, spec.url_xpath) # NoText)
        img_ok == Count(sample, LAMBDA it : get_text(it, spec.image_xpath) # NoText)
        avail_ok == Count(sample, LAMBDA it : has_availability(it, spec))
        denom == Max(Len(sample), 1)
        root_bonus == IF spec.expected_root_locals # <<>>
                         /\ root_local \in Range(spec.expected_root_locals)
                      THEN 1 ELSE 0
        \* every namespace present contains a fragment iff it is the Google one
        ns_present == {e.tag.ns : e \in {d \in Range(iter(root)) : d.tag.ns # ""}}
        frags == spec.required_ns_fragments
        ns_hits == Count(frags, LAMBDA frag : frag = GoogleFragment /\ GNS \in ns_present)
        ns_den == Max(Len(frags), 1)
        \* 100 * score as the fraction num / den
        den == sig_sim[2] * req_den * denom * ns_den
        num == Min(n_items, 2000) * 5 * den
               + sig_sim[1] * 10000 * (den \div sig_sim[2])
               + req_hits * 8000 * (den \div req_den)
               + (id_ok + url_ok + img_ok) * 3500 * (den \div denom)
               + avail_ok * 2500 * (den \div denom)
               + root_bonus * 1000 * den
               + (IF frags # <<>> THEN ns_hits * 1000 * (den \div ns_den) ELSE 0)
        damped == n_items >= 50 /\ sig_sim[1] * 10 < sig_sim[2]
    IN  [name |-> spec.name,
         score |-> IF damped THEN RoundHalfEven(num * 6, den * 10)
                   ELSE RoundHalfEven(num, den),
         items_found |-> n_items,
         signature_similarity |-> RoundHalfEven(sig_sim[1] * 1000, sig_sim[2]),
         required_groups_present |-> req_hits,
         required_groups_total |-> Len(reqs),
         id_rate |-> RoundHalfEven(id_ok * 1000, denom),
         url_rate |-> RoundHalfEven(url_ok * 1000, denom),
         img_rate |-> RoundHalfEven(img_ok * 1000, denom),
         availability_rate |-> RoundHalfEven(avail_ok * 1000, denom),
         root_match |-> root_bonus = 1,
         ns_hint_match_fraction |-> IF frags # <<>> THEN RoundHalfEven(ns_hits * 1000, ns_den)
                                    ELSE 0,
         present_tags |-> union_tags]

\* faulty variant: the scored list is cut without being sorted
top_k_unsorted(root, k) ==
    Take([i \in 1..Len(SPECS) |-> score_spec_for_diagnostics(root, SPECS[i])], k)

top_k_specs(root, k) ==
    LET Keyed(d) == <<d.score, d>>
        scored == [i \in 1..Len(SPECS) |->
                      Keyed(score_spec_for_diagnostics(root, SPECS[i]))]
        Dicts(sorted) == [i \in 1..Len(sorted) |-> sorted[i][2]]
    IN  Take(Dicts(SortDesc(scored)), k)

(***************************************************************************)
(* feed_checker_gui.py: analyze_feed                                       *)
(***************************************************************************)
\* Python None in a field that otherwise holds a spec name
NoName == "None"

InitialOut ==
    [xml_ok |-> FALSE,
     detected |-> NoName,
     items |-> 0,
     missing_required |-> <<>>,
     ids |-> <<>>, urls |-> <<>>, imgs |-> <<>>,
     duplicates |-> [ids |-> <<>>, urls |-> <<>>],
     missing_img_count |-> 0,
     missing_availability_count |-> 0,
     severity |-> "PASS",
     notes |-> <<>>,
     unrecognized_details |-> None,
     top_candidates |-> None,
     url_issues |-> [products |-> <<>>, images |-> <<>>]]

\* faulty variant: a parse failure is reported as an unrecognized format
ParseErrorAsUnrecognized ==
    [InitialOut EXCEPT !.severity = "FAIL", !.notes = <<"XML parse error">>,
                       !.detected = "Unrecognized"]

\* the except ET.ParseError branch
ParseErrorOut ==
    [InitialOut EXCEPT !.severity = "FAIL", !.notes = <<"XML parse error">>]

\* faulty variant: the scan keeps the last spec that matches instead of the first
RECURSIVE last_detected(_, _)
last_detected(specs, root) ==
    IF specs = <<>> THEN None
    ELSE IF detect_fn(specs[Len(specs)], root) THEN specs[Len(specs)]
    ELSE last_detected(SubSeq(specs, 1, Len(specs) - 1), root)

\* next((s for s in SPECS if s.detect_fn(root)), None)
RECURSIVE first_detected(_, _)
first_detected(specs, root) ==
    IF specs = <<>> THEN None
    ELSE IF detect_fn(Head(specs), root) THEN Head(specs)
    ELSE first_detected(Tail(specs), root)

\* the values of s without repeats, in order of first occurrence
\* if u not in seen: seen.add(u); dedup.append(u)
Dedup(s) ==
    LET unseen(i) == \A j \in 1..(i - 1) : s[j] # s[i]
        kept == SelectSeq([i \in 1..Len(s) |-> i], unseen)
    IN  [k \in 1..Len(kept) |-> s[kept[k]]]

\* Counter(values): value -> number of occurrences
Counter(values) ==
    [v \in Range(values) |-> Count(values, LAMBDA x : x = v)]

\* Counter(...).most_common(12) as <<tag, count>> pairs
top_local_tags(root) ==
    LET locals == [i \in 1..Len(iter(root)) |-> strip_ns(iter(root)[i].tag)]
        c == Counter(locals)
        keys == Dedup(locals)
        sorted == SortDesc([i \in 1..Len(keys) |-> <<c[keys[i]], keys[i]>>])
    IN  Take([i \in 1..Len(sorted) |-> <<sorted[i][2], sorted[i][1]>>], 12)

UnrecognizedOut(root) ==
    LET details(candidates) ==
            [root |-> root.tag,
             local_root |-> strip_ns(root.tag),
             top_local_tags |-> top_local_tags(root),
             closest_spec |-> IF candidates # <<>> THEN candidates[1] ELSE None]
        Report(candidates) ==
            [InitialOut EXCEPT !.xml_ok = TRUE,
                               !.unrecognized_details = details(candidates),
                               !.detected = "Unrecognized",
                               !.severity = "FAIL",
                               !.top_candidates = candidates]
    IN  Report(top_k_specs(root, 2))

\* faulty variant: a group 'a|b' needs a child for each of its aliases
missing_required_all_aliases(items, spec) ==
    LET reqs == spec.required_item_children
        lacks(it, req) ==
            ~(\A a \in Range(req_aliases(req)) : a \in Range(iter_local_children_tags(it)))
        n(req) == Count(items, LAMBDA it : lacks(it, req))
    IN  [req \in {r \in Range(reqs) : n(r) > 0} |-> n(req)]

\* Counter of the required groups that items lack, as dict(missing_required)
missing_required(items, spec) ==
    LET reqs == spec.required_item_children
        lacks(it, req) ==
            ~(\E a \in Range(req_aliases(req)) : a \in Range(iter_local_children_tags(it)))
        n(req) == Count(items, LAMBDA it : lacks(it, req))
    IN  [req \in {r \in Range(reqs) : n(r) > 0} |-> n(req)]

\* faulty variant: an item without the field gets no entry
extract_present(items, paths) ==
    SelectSeq([i \in 1..Len(items) |-> or_empty(get_text(items[i], paths))],
              LAMBDA v : v # <<>>)

\* the "Extract core fields" loop for one field
extract(items, paths) ==
    [i \in 1..Len(items) |-> or_empty(get_text(items[i], paths))]

\* faulty variant: items without the field are counted like any value
dup_map_unfiltered(values) ==
    LET c == Counter(values)
    IN  [k \in {v \in DOMAIN c : c[v] > 1} |-> c[k]]

\* faulty variant: the count is the number of repeats after the first
dup_map_repeats(values) ==
    LET vals == SelectSeq(values, LAMBDA v : v # <<>>)
        c == Counter(vals)
    IN  [k \in {v \in DOMAIN c : c[v] > 1} |-> c[k] - 1]

dup_map(values) ==
    LET vals == SelectSeq(values, LAMBDA v : v # <<>>)
        c == Counter(vals)
    IN  [k \in {v \in DOMAIN c : c[v] > 1} |-> c[k]]

\* faulty variant: the last step sets the severity whatever it was
final_severity_unguarded(severity, missing, missing_img_count, missing_availability_count) ==
    IF DOMAIN missing # {} \/ missing_img_count > 0 \/ missing_availability_count > 0
    THEN "WARN"
    ELSE "PASS"

\* the last step of analyze_feed: WARN or PASS unless the severity is FAIL
final_severity(severity, missing, missing_img_count, missing_availability_count) ==
    IF severity # "FAIL"
    THEN IF DOMAIN missing # {} \/ missing_img_count > 0 \/ missing_availability_count > 0
         THEN "WARN"
         ELSE "PASS"
    ELSE severity

RecognizedOut(root, spec) ==
    LET items == items_getter(spec, root)
        ids == extract(items, spec.id_xpath)
        urls == extract(items, spec.url_xpath)
        imgs == extract(items, spec.image_xpath)
        missing == missing_required(items, spec)
        missing_availability_count == Count(items, LAMBDA it : ~has_availability(it, spec))
        id_dupes == dup_map(ids)
        url_dupes == dup_map(urls)
        missing_img_count == Count(imgs, LAMBDA x : x = <<>>)
        base == [InitialOut EXCEPT !.xml_ok = TRUE, !.detected = spec.name,
                                   !.items = Len(items)]
    IN  IF items = <<>>
        THEN [base EXCEPT !.severity = "FAIL",
                          !.notes = <<"No items found for detected transformation.">>]
        ELSE [base EXCEPT
                !.missing_required = missing,
                !.ids = ids, !.urls = urls, !.imgs = imgs,
                !.url_issues = [products |-> find_url_issues(urls),
                                images |-> find_url_issues(imgs)],
                !.missing_availability_count = missing_availability_count,
                !.duplicates = [ids |-> id_dupes, urls |-> url_dupes],
                !.missing_img_count = missing_img_count,
                !.severity =
                    final_severity(
                        IF DOMAIN id_dupes # {} \/ DOMAIN url_dupes # {} THEN "FAIL"
                        ELSE base.severity,
                        missing, missing_img_count, missing_availability_count)]

\* feed = [well_formed, root]: ET.fromstring raises ParseError exactly on
\* input that is not well-formed
analyze_feed(feed) ==
    IF ~feed.well_formed THEN ParseErrorOut
    ELSE LET spec == first_detected(SPECS, feed.root)
         IN  IF spec = None THEN UnrecognizedOut(feed.root)
             ELSE RecognizedOut(feed.root, spec)

(***************************************************************************)
(* urllib.parse as used by percent_encode_url (CPython 3.11).  URL texts   *)
(* of the model hold no tab, CR, LF, '[' or ']' and no character that      *)
(* NFKC-normalises to a delimiter, so urlsplit removes nothing and never   *)
(* raises; texts reach it already stripped.                                *)
(***************************************************************************)
\* s.find(c): the first index of code point c in s, 0 when absent
IndexOf(s, c) ==
    IF \E i \in 1..Len(s) : s[i] = c
    THEN CHOOSE i \in 1..Len(s) : s[i] = c /\ \A j \in 1..(i - 1) : s[j] # c
    ELSE 0

\* s[i:] for a 1-based i
From(s, i) == SubSeq(s, i, Len(s))

is_ascii_alpha(c) == c \in (65..90) \cup (97..122)

\* scheme_chars: letters, digits, "+-."
is_scheme_char(c) == is_ascii_alpha(c) \/ c \in (48..57) \/ c \in {43, 45, 46}

\* str.lower() on ASCII text
ascii_lower(s) == [i \in 1..Len(s) |-> IF s[i] \in 65..90 THEN s[i] + 32 ELSE s[i]]

uses_netloc ==
    {<<>>,
     <<102, 116, 112>>, <<104, 116, 116, 112>>, <<103, 111, 112, 104, 101, 114>>,
     <<110, 110, 116, 112>>, <<116, 101, 108, 110, 101, 116>>, <<105, 109, 97, 112>>,
     <<119, 97, 105, 115>>, <<102, 105, 108, 101>>, <<109, 109, 115>>,
     <<104, 116, 116, 112, 115>>, <<115, 104, 116, 116, 112>>,
     <<115, 110, 101, 119, 115>>, <<112, 114, 111, 115, 112, 101, 114, 111>>,
     <<114, 116, 115, 112>>, <<114, 116, 115, 112, 115>>, <<114, 116, 115, 112, 117>>,
     <<114, 115, 121, 110, 99>>, <<115, 118, 110>>, <<115, 118, 110, 43, 115, 115, 104>>,
     <<115, 102, 116, 112>>, <<110, 102, 115>>, <<103, 105, 116>>,
     <<103, 105, 116, 43, 115, 115, 104>>, <<119, 115>>, <<119, 115, 115>>}

\* url.lstrip(_WHATWG_C0_CONTROL_OR_SPACE)
RECURSIVE lstrip_c0(_)
lstrip_c0(s) ==
    IF s # <<>> /\ Head(s) <= 32 THEN lstrip_c0(Tail(s)) ELSE s

\* urlsplit(url): [scheme, netloc, path, query, fragment]
urlsplit(url) ==
    LET \* the part after the netloc: fragment at the first '#', then query
        \* at the first '?'
        SplitPath(scheme, netloc, u2) ==
            LET h == IndexOf(u2, 35)
                fragment == IF h > 0 THEN From(u2, h + 1) ELSE <<>>
                u3 == IF h > 0 THEN SubSeq(u2, 1, h - 1) ELSE u2
                q == IndexOf(u3, 63)
            IN  [scheme |-> scheme, netloc |-> netloc,
                 path |-> IF q > 0 THEN SubSeq(u3, 1, q - 1) ELSE u3,
                 query |-> IF q > 0 THEN From(u3, q + 1) ELSE <<>>,
                 fragment |-> fragment]
        \* _splitnetloc(url, 2): after "//", up to the first of "/?#"
        SplitNetloc(scheme, u1) ==
            LET has_netloc == Len(u1) >= 2 /\ u1[1] = 47 /\ u1[2] = 47
                delims == {j \in 3..Len(u1) : u1[j] \in {47, 63, 35}}
                delim == IF delims = {} THEN Len(u1) + 1
                         ELSE CHOOSE j \in delims : \A k \in delims : j <= k
            IN  IF has_netloc
                THEN SplitPath(scheme, SubSeq(u1, 3, delim - 1), From(u1, delim))
                ELSE SplitPath(scheme, <<>>, u1)
        SplitScheme(u0) ==
            LET i == IndexOf(u0, 58)
                has_scheme == /\ i > 1
                              /\ is_ascii_alpha(u0[1])
                              /\ \A j \in 1..(i - 1) : is_scheme_char(u0[j])
            IN  IF has_scheme
                THEN SplitNetloc(ascii_lower(SubSeq(u0, 1, i - 1)), From(u0, i + 1))
                ELSE SplitNetloc(<<>>, u0)
    IN  SplitScheme(lstrip_c0(url))

HexDigit(n) == IF n < 10 THEN 48 + n ELSE 55 + n

\* '%{:02X}' of one byte
PctByte(b) == <<37, HexDigit(b \div 16), HexDigit(b % 16)>>

\* ch.encode('utf-8')
Utf8(cp) ==
    IF cp < 128 THEN <<cp>>
    ELSE IF cp < 2048 THEN <<192 + (cp \div 64), 128 + (cp % 64)>>
    ELSE IF cp < 65536
         THEN <<224 + (cp \div 4096), 128 + ((cp \div 64) % 64), 128 + (cp % 64)>>
    ELSE <<240 + (cp \div 262144), 128 + ((cp \div 4096) % 64),
           128 + ((cp \div 64) % 64), 128 + (cp % 64)>>

\* _ALWAYS_SAFE: letters, digits, "_.-~"
always_safe(c) == is_ascii_alpha(c) \/ c \in (48..57) \/ c \in {95, 46, 45, 126}

\* quote(string, safe=...)
quote(string, safe) ==
    Flatten([i \in 1..Len(string) |->
        LET bytes == Utf8(string[i])
        IN  Flatten([j \in 1..Len(bytes) |->
                IF bytes[j] < 128 /\ (always_safe(bytes[j]) \/ bytes[j] \in safe)
                THEN <<bytes[j]>> ELSE PctByte(bytes[j])])])

urlunsplit(scheme, netloc, path, query, fragment) ==
    LET starts_slashes == Len(path) >= 2 /\ path[1] = 47 /\ path[2] = 47
        u1 == IF netloc # <<>> \/ (scheme # <<>> /\ scheme \in uses_netloc /\ ~starts_slashes)
              THEN <<47, 47>> \o netloc
                   \o (IF path # <<>> /\ path[1] # 47 THEN <<47>> \o path ELSE path)
              ELSE path
        u2 == IF scheme # <<>> THEN scheme \o <<58>> \o u1 ELSE u1
        u3 == IF query # <<>> THEN u2 \o <<63>> \o query ELSE u2
    IN  IF fragment # <<>> THEN u3 \o <<35>> \o fragment ELSE u3

\* feed_specs.percent_encode_url; the fixer's copy is the same text
percent_encode_url(url) ==
    IF url = <<>> THEN url
    ELSE LET Quoted(parts) ==
                 urlunsplit(parts.scheme, parts.netloc,
                     quote(parts.path, {47, 58, 64, 38, 43, 36, 44, 59, 61, 45, 46, 95, 126}),
                     quote(parts.query,
                           {61, 47, 63, 38, 58, 43, 44, 59, 64, 45, 46, 95, 126}),
                     quote(parts.fragment, {45, 46, 95, 126}))
         IN  Quoted(urlsplit(url))

(***************************************************************************)
(* feed_specs.py: selectors                                                *)
(***************************************************************************)
_select_value(elem, path) ==
    IF path.steps = <<>> /\ path.attr = "" THEN <<>>
    ELSE IF path.steps = <<>> THEN strip(or_empty(get(elem, path.attr)))
    ELSE IF path.attr # ""
         THEN LET n == find(elem, WithAttr(path, ""))
              IN  IF n # None THEN strip(or_empty(get(n, path.attr))) ELSE <<>>
    ELSE LET n == find(elem, path)
         IN  IF n # None /\ n.text # <<>> THEN strip(n.text) ELSE <<>>

\* faulty variant: the scan keeps the last non-empty value
RECURSIVE _last(_, _)
_last(elem, paths) ==
    IF paths = <<>> THEN <<>>
    ELSE LET t == _select_value(elem, paths[Len(paths)])
         IN  IF t # <<>> THEN t ELSE _last(elem, SubSeq(paths, 1, Len(paths) - 1))

RECURSIVE _first(_, _)
_first(elem, paths) ==
    IF paths = <<>> THEN <<>>
    ELSE LET t == _select_value(elem, Head(paths))
         IN  IF t # <<>> THEN t ELSE _first(elem, Tail(paths))

\* the values one path of _all appends, in document order
all_of_path(elem, p) ==
    IF p.steps # <<>> /\ p.attr # ""
    THEN LET ns == findall(elem, WithAttr(p, ""))
         IN  SelectSeq([i \in 1..Len(ns) |-> strip(or_empty(get(ns[i], p.attr)))],
                       LAMBDA v : v # <<>>)
    ELSE IF p.steps = <<>>
    THEN LET v == strip(or_empty(get(elem, p.attr)))
         IN  IF v # <<>> THEN <<v>> ELSE <<>>
    ELSE LET ns == findall(elem, p)
         IN  SelectSeq([i \in 1..Len(ns) |-> strip(ns[i].text)], LAMBDA v : v # <<>>)

RECURSIVE _all(_, _)
_all(elem, paths) ==
    IF paths = <<>> THEN <<>>
    ELSE all_of_path(elem, Head(paths)) \o _all(elem, Tail(paths))

(***************************************************************************)
(* feed_specs.py: SPEC                                                     *)
(***************************************************************************)
\* rel='alternate'
Alternate == <<97, 108, 116, 101, 114, 110, 97, 116, 101>>

SPEC == <<
    [name |-> GoogleRssName,
     item_paths |-> <<D(T("item"))>>,
     id_paths |-> <<P(G("id")), P(G("id"))>>,
     link_paths |-> <<P(T("link")), P(G("link")), P(G("link"))>>,
     image_primary_paths |-> <<P(G("image_link")), P(G("image_link"))>>,
     image_gallery_paths |-> <<>>,
     availability_paths |-> <<P(G("availability")), P(G("availability"))>>],
    [name |-> GoogleAtomName,
     item_paths |-> <<D(A("entry")), D(T("entry"))>>,
     id_paths |-> <<P(G("id")), P(G("id"))>>,
     link_paths |-> <<WithAttr(PPred(A("link"), "rel", Alternate), "href"),
                      WithAttr(P(A("link")), "href"),
                      WithAttr(P(A("link")), "href"),
                      P(A("link")), P(A("link")), P(T("link")), P(G("link")), P(G("link"))>>,
     image_primary_paths |-> <<P(G("image_link")), P(G("image_link"))>>,
     image_gallery_paths |-> <<>>,
     availability_paths |-> <<P(G("availability")), P(G("availability"))>>],
    [name |-> GoogleNoNsName,
     item_paths |-> <<D(T("item"))>>,
     id_paths |-> <<P(T("id"))>>,
     link_paths |-> <<P(T("link"))>>,
     image_primary_paths |-> <<P(T("image_link"))>>,
     image_gallery_paths |-> <<>>,
     availability_paths |-> <<P(T("availability"))>>],
    [name |-> HeurekaName,
     item_paths |-> <<D(T("SHOPITEM"))>>,
     id_paths |-> <<P(T("ITEM_ID"))>>,
     link_paths |-> <<P(T("URL"))>>,
     image_primary_paths |-> <<P(T("IMGURL"))>>,
     image_gallery_paths |-> <<>>,
     availability_paths |-> <<P(T("AVAILABILITY")), P(T("DELIVERY")), P(T("delivery")),
                              P(T("AVAILABILITY_DESC")), P(T("DELIVERY_DATE"))>>],
    [name |-> CompariName,
     item_paths |-> <<D(T("product"))>>,
     id_paths |-> <<P(T("Identifier")), P(T("identifier")), P(T("ProductId")),
                    P(T("productid")), P(T("id"))>>,
     link_paths |-> <<P(T("Product_url")), P(T("product_url"))>>,
     image_primary_paths |-> <<P(T("Image_url")), P(T("image_url"))>>,
     image_gallery_paths |-> <<>>,
     availability_paths |-> <<P(T("availability")), P(T("in_stock")), P(T("stock")),
                              P(T("availability_status")), P(T("Delivery_time"))>>],
    [name |-> SkroutzName,
     item_paths |-> <<D(T("product"))>>,
     id_paths |-> <<P(T("id"))>>,
     link_paths |-> <<P(T("link"))>>,
     image_primary_paths |-> <<P(T("image"))>>,
     image_gallery_paths |-> <<>>,
     availability_paths |-> <<P(T("availability")), P(T("in_stock")), P(T("stock"))>>],
    [name |-> CenejeName,
     item_paths |-> <<D(T("Item"))>>,
     id_paths |-> <<P(T("ID")), P(T("id"))>>,
     link_paths |-> <<P(T("link"))>>,
     image_primary_paths |-> <<P(T("mainImage")), P(T("image"))>>,
     image_gallery_paths |-> <<>>,
     availability_paths |-> <<P(T("availability")), P(T("in_stock")), P(T("stock"))>>],
    [name |-> CeneoName,
     item_paths |-> <<D(T("o"))>>,
     id_paths |-> <<At("id")>>,
     link_paths |-> <<At("url")>>,
     image_primary_paths |-> <<WithAttr(P2(T("imgs"), T("main")), "url"), P(T("image"))>>,
     image_gallery_paths |-> <<WithAttr(P2(T("imgs"), T("img")), "url")>>,
     availability_paths |-> <<At("avail"), At("availability"), At("stock")>>]
>>

\* faulty variant: a name that is no key reads as the first entry
SPEC_get_first(spec_name) ==
    IF \E i \in 1..Len(SPEC) : SPEC[i].name = spec_name
    THEN SPEC[CHOOSE i \in 1..Len(SPEC) : SPEC[i].name = spec_name]
    ELSE SPEC[1]

\* SPEC.get(spec_name, {}): every path list of a missing entry reads as []
SPEC_get(spec_name) ==
    IF \E i \in 1..Len(SPEC) : SPEC[i].name = spec_name
    THEN SPEC[CHOOSE i \in 1..Len(SPEC) : SPEC[i].name = spec_name]
    ELSE [name |-> spec_name, item_paths |-> <<>>, id_paths |-> <<>>, link_paths |-> <<>>,
          image_primary_paths |-> <<>>, image_gallery_paths |-> <<>>,
          availability_paths |-> <<>>]

(***************************************************************************)
(* feed_specs.py: detection                                                *)
(***************************************************************************)
\* b"base.google.com/ns/1.0" in ET.tostring(root): the serialisation declares
\* the namespace of every element; texts and attribute values of the model
\* never hold the string
google_in_xml(root) == \E e \in Range(iter(root)) : has_google_fragment(e.tag)

_exists(root, xpath) == find(root, xpath) # None

_exists_local(root, localname) ==
    \E e \in Range(iter(root)) : lower(strip_ns(e.tag)) = lower(localname)

_first_local(root, localname) ==
    LET hits == SelectSeq(iter(root), LAMBDA e : lower(strip_ns(e.tag)) = lower(localname))
    IN  IF hits = <<>> THEN None ELSE Head(hits)

_looks_like_google_without_ns(root) ==
    IF google_in_xml(root) THEN FALSE
    ELSE IF lower(strip_ns(root.tag)) # "rss" THEN FALSE
    ELSE LET first_item == find(root, D(T("item")))
         IN  IF first_item = None THEN FALSE
             ELSE LET locals_ == Range(iter_local_children_tags(first_item))
                      googleish == {"id", "link", "image_link", "price", "availability",
                                    "product_type", "title", "description"}
                      core == {"id", "link", "image_link"}
                  IN  Cardinality(locals_ \cap googleish) >= 3 /\ core \subseteq locals_

\* root.find(".//product") or _first_local(root, "product")
product_sample(root) ==
    LET found == find(root, D(T("product")))
    IN  IF truthy(found) THEN found ELSE _first_local(root, "product")

has_price_with_vat(sample) ==
    \/ find(sample, P(T("price_with_vat"))) # None
    \/ \E c \in Range(sample.children) : lower(strip_ns(c.tag)) = "price_with_vat"

\* faulty variant: the marketplace checks come before the no-namespace check
detect_spec_marketplace_first(root) ==
    LET has_entry == \E e \in Range(iter(root)) : lower(strip_ns(e.tag)) = "entry"
    IN  IF has_entry /\ google_in_xml(root) THEN GoogleAtomName
        ELSE IF _exists(root, D(T("item"))) /\ google_in_xml(root) THEN GoogleRssName
        ELSE IF _exists(root, D(T("SHOPITEM"))) \/ _exists_local(root, "shopitem")
             THEN HeurekaName
        ELSE IF _exists(root, D(T("o"))) \/ _exists_local(root, "o") THEN CeneoName
        ELSE IF _looks_like_google_without_ns(root) THEN GoogleNoNsName
        ELSE IF _exists(root, D(T("Item"))) \/ _exists_local(root, "item") THEN CenejeName
        ELSE IF _exists(root, D(T("product"))) \/ _exists_local(root, "product")
             THEN LET sample == product_sample(root)
                  IN  IF sample # None /\ has_price_with_vat(sample) THEN SkroutzName
                      ELSE CompariName
        ELSE "UNKNOWN"

detect_spec(root) ==
    LET has_entry == \E e \in Range(iter(root)) : lower(strip_ns(e.tag)) = "entry"
    IN  IF has_entry /\ google_in_xml(root) THEN GoogleAtomName
        ELSE IF _exists(root, D(T("item"))) /\ google_in_xml(root) THEN GoogleRssName
        ELSE IF _looks_like_google_without_ns(root) THEN GoogleNoNsName
        ELSE IF _exists(root, D(T("SHOPITEM"))) \/ _exists_local(root, "shopitem")
             THEN HeurekaName
        ELSE IF _exists(root, D(T("o"))) \/ _exists_local(root, "o") THEN CeneoName
        ELSE IF _exists(root, D(T("Item"))) \/ _exists_local(root, "item") THEN CenejeName
        ELSE IF _exists(root, D(T("product"))) \/ _exists_local(root, "product")
             THEN LET sample == product_sample(root)
                  IN  IF sample # None /\ has_price_with_vat(sample) THEN SkroutzName
                      ELSE CompariName
        ELSE IF has_entry /\ google_in_xml(root) THEN GoogleAtomName
        ELSE IF (_exists(root, D(T("item"))) \/ _exists_local(root, "item"))
                /\ google_in_xml(root)
             THEN GoogleRssName
        ELSE "UNKNOWN"

(***************************************************************************)
(* feed_specs.py: accessors                                                *)
(***************************************************************************)
\* faulty variant: the de-dup pass is left out
gather_gallery_all(elem, spec_name, do_percent_encode) ==
    LET paths == SPEC_get(spec_name).image_gallery_paths
        raw == IF paths # <<>> THEN _all(elem, paths) ELSE <<>>
        enc == IF do_percent_encode
               THEN [i \in 1..Len(raw) |-> percent_encode_url(raw[i])]
               ELSE raw
    IN  SelectSeq(enc, LAMBDA u : u # <<>>)

gather_gallery(elem, spec_name, do_percent_encode) ==
    LET paths == SPEC_get(spec_name).image_gallery_paths
        raw == IF paths # <<>> THEN _all(elem, paths) ELSE <<>>
        enc == IF do_percent_encode
               THEN [i \in 1..Len(raw) |-> percent_encode_url(raw[i])]
               ELSE raw
    IN  Dedup(SelectSeq(enc, LAMBDA u : u # <<>>))

gather_primary_image(elem, spec_name, do_percent_encode) ==
    LET paths == SPEC_get(spec_name).image_primary_paths
        prim == IF paths # <<>> THEN _first(elem, paths) ELSE <<>>
    IN  IF do_percent_encode /\ prim # <<>> THEN percent_encode_url(prim) ELSE prim

read_link(elem, spec_name) ==
    LET val == _first(elem, SPEC_get(spec_name).link_paths)
    IN  IF val # <<>> THEN percent_encode_url(val) ELSE <<>>

\* str.isdigit(); the texts of the model hold no digit outside '0'..'9'
isdigit(s) == s # <<>> /\ \A i \in 1..Len(s) : s[i] \in 48..57

\* int(s) of a digit string
RECURSIVE int(_)
int(s) == IF s = <<>> THEN 0 ELSE 10 * int(SubSeq(s, 1, Len(s) - 1)) + (s[Len(s)] - 48)

\* "in stock"
InStock == <<105, 110, 32, 115, 116, 111, 99, 107>>

read_availability(elem, spec_name) ==
    LET paths == SPEC_get(spec_name).availability_paths
        val == IF paths # <<>> THEN _first(elem, paths) ELSE <<>>
        dd == _first(elem, <<P(T("DELIVERY_DATE"))>>)
    IN  IF val # <<>> THEN val
        ELSE IF spec_name = HeurekaName /\ dd # <<>> /\ isdigit(dd) /\ int(dd) < 3
        THEN InStock
        ELSE <<>>

\* the RAW versions: no percent-encoding
read_link_raw(elem, spec_name) == _first(elem, SPEC_get(spec_name).link_paths)

gather_primary_image_raw(elem, spec_name) ==
    LET paths == SPEC_get(spec_name).image_primary_paths
    IN  IF paths # <<>> THEN _first(elem, paths) ELSE <<>>

read_id(elem, spec_name) == _first(elem, SPEC_get(spec_name).id_paths)

\* faulty variant: the configured paths alone, without the fallback by
\* lower-cased local name
get_item_nodes_configured(root, spec_name) ==
    LET paths == SPEC_get(spec_name).item_paths
    IN  Flatten([i \in 1..Len(paths) |-> findall(root, paths[i])])

\* the configured paths first; when they match nothing, every element
\* (the root included) whose lower-cased local name is the lower-cased
\* local name of the last token of a path
get_item_nodes(root, spec_name) ==
    LET paths == SPEC_get(spec_name).item_paths
        nodes == Flatten([i \in 1..Len(paths) |-> findall(root, paths[i])])
        want == {lower(strip_ns(paths[i].steps[Len(paths[i].steps)].tag)) :
                    i \in 1..Len(paths)} \ {""}
    IN  IF nodes # <<>> THEN nodes
        ELSE IF want = {} THEN nodes
        ELSE SelectSeq(iter(root), LAMBDA e : lower(strip_ns(e.tag)) \in want)

(***************************************************************************)
(* pages/2_Feed_Fixer.py: readers                                          *)
(***************************************************************************)
text_of(node) == strip(node.text)

RECURSIVE find_first_text(_, _)
find_first_text(elem, paths) ==
    IF paths = <<>> THEN <<>>
    ELSE LET n == find(elem, Head(paths))
         IN  IF n # None /\ text_of(n) # <<>> THEN text_of(n)
             ELSE find_first_text(elem, Tail(paths))

RECURSIVE find_all_texts(_, _)
find_all_texts(elem, paths) ==
    IF paths = <<>> THEN <<>>
    ELSE LET ns == findall(elem, Head(paths))
         IN  SelectSeq([i \in 1..Len(ns) |-> text_of(ns[i])], LAMBDA t : t # <<>>)
             \o find_all_texts(elem, Tail(paths))

FIELD_MAPS == <<
    [name |-> "HEUREKA",
     id |-> <<P(T("ITEM_ID"))>>,
     title |-> <<P(T("PRODUCTNAME"))>>,
     link |-> <<P(T("URL"))>>,
     description |-> <<P(T("DESCRIPTION"))>>,
     price |-> <<P(T("PRICE_VAT"))>>,
     availability |-> <<>>,
     availability_hint |-> <<P(T("DELIVERY_DATE"))>>,
     brand |-> <<P(T("MANUFACTURER"))>>,
     mpn |-> <<P(T("PRODUCTNO"))>>,
     gtin |-> <<P(T("EAN"))>>,
     image_primary |-> <<P(T("IMGURL"))>>,
     image_gallery |-> <<P(T("IMGURL_ALTERNATIVE"))>>,
     item_group_id |-> <<P(T("ITEMGROUP_ID"))>>,
     category |-> <<>>,
     product_type |-> <<>>,
     google_product_category |-> <<>>,
     condition |-> <<>>],
    [name |-> "COMPARI",
     id |-> <<P(T("Identifier"))>>,
     title |-> <<P(T("Name"))>>,
     link |-> <<P(T("Product_url"))>>,
     description |-> <<P(T("Description"))>>,
     price |-> <<P(T("Price"))>>,
     availability |-> <<P(T("availability"))>>,
     availability_hint |-> <<>>,
     brand |-> <<P(T("Manufacturer"))>>,
     mpn |-> <<>>,
     gtin |-> <<>>,
     image_primary |-> <<P(T("Image_url"))>>,
     image_gallery |-> <<P2(T("Gallery"), T("Image"))>>,
     item_group_id |-> <<>>,
     category |-> <<P(T("Category"))>>,
     product_type |-> <<>>,
     google_product_category |-> <<>>,
     condition |-> <<>>],
    [name |-> "SKROUTZ",
     id |-> <<P(T("id"))>>,
     title |-> <<P(T("name"))>>,
     link |-> <<P(T("link"))>>,
     description |-> <<P(T("description"))>>,
     price |-> <<P(T("price_with_vat"))>>,
     availability |-> <<P(T("availability"))>>,
     availability_hint |-> <<>>,
     brand |-> <<P(T("brand"))>>,
     mpn |-> <<P(T("mpn"))>>,
     gtin |-> <<P(T("gtin"))>>,
     image_primary |-> <<P(T("image"))>>,
     image_gallery |-> <<P2(T("images"), T("image"))>>,
     item_group_id |-> <<>>,
     category |-> <<>>,
     product_type |-> <<>>,
     google_product_category |-> <<>>,
     condition |-> <<>>],
    [name |-> "JEFTINIJE",
     id |-> <<P(T("Id")), P(T("ID")), P(T("id"))>>,
     title |-> <<P(T("Name")), P(T("TITLE")), P(T("title")), P(T("PRODUCTNAME"))>>,
     link |-> <<P(T("Url")), P(T("URL")), P(T("link")), P(T("ProductUrl")), P(T("Product_url"))>>,
     description |-> <<P(T("Description")), P(T("description"))>>,
     price |-> <<P(T("Price")), P(T("PRICE")), P(T("price")), P(T("price_with_vat"))>>,
     availability |-> <<P(T("Availability")), P(T("availability"))>>,
     availability_hint |-> <<>>,
     brand |-> <<P(T("Manufacturer")), P(T("Brand")), P(T("MANUFACTURER"))>>,
     mpn |-> <<P(T("Code")), P(T("code")), P(T("mpn")), P(T("PRODUCTNO"))>>,
     gtin |-> <<P(T("EAN")), P(T("ean")), P(T("gtin"))>>,
     image_primary |-> <<P(T("Image")), P(T("IMGURL")), P(T("Image_url"))>>,
     image_gallery |-> <<P2(T("Images"), T("Image")), P2(T("Gallery"), T("Image")), P(T("IMGURL_ALTERNATIVE"))>>,
     item_group_id |-> <<P(T("ItemGroupId")), P(T("ITEMGROUP_ID"))>>,
     category |-> <<>>,
     product_type |-> <<>>,
     google_product_category |-> <<>>,
     condition |-> <<>>],
    [name |-> "CENEO",
     id |-> <<P(T("id")), P(T("ID")), P(T("offer_id"))>>,
     title |-> <<P(T("name")), P(T("NAME")), P(T("title")), P(T("Title")), P(T("PRODUCTNAME"))>>,
     link |-> <<P(T("url")), P(T("URL")), P(T("link"))>>,
     description |-> <<P(T("desc")), P(T("DESCRIPTION")), P(T("description"))>>,
     price |-> <<P(T("price")), P(T("PRICE")), P(T("price_with_vat"))>>,
     availability |-> <<P(T("availability"))>>,
     availability_hint |-> <<>>,
     brand |-> <<P(T("producer")), P(T("Brand")), P(T("MANUFACTURER"))>>,
     mpn |-> <<P(T("code")), P(T("mpn")), P(T("PRODUCTNO"))>>,
     gtin |-> <<P(T("ean")), P(T("EAN")), P(T("gtin"))>>,
     image_primary |-> <<P2(T("imgs"), T("main")), P(T("image")), P(T("IMGURL"))>>,
     image_gallery |-> <<P2(T("imgs"), T("img")), P2(T("images"), T("image")), P(T("IMGURL_ALTERNATIVE"))>>,
     item_group_id |-> <<>>,
     category |-> <<>>,
     product_type |-> <<>>,
     google_product_category |-> <<>>,
     condition |-> <<>>],
    [name |-> "GOOGLE_RSS",
     id |-> <<P(G("id")), P(G("id"))>>,
     title |-> <<P(T("title"))>>,
     link |-> <<P(T("link")), P(G("link")), P(G("link"))>>,
     description |-> <<P(T("description")), P(C("encoded"))>>,
     price |-> <<P(G("price")), P(G("price"))>>,
     availability |-> <<P(G("availability")), P(G("availability"))>>,
     availability_hint |-> <<>>,
     brand |-> <<P(G("brand")), P(G("brand"))>>,
     mpn |-> <<P(G("mpn")), P(G("mpn"))>>,
     gtin |-> <<P(G("gtin")), P(G("gtin"))>>,
     image_primary |-> <<P(G("image_link")), P(G("image_link")), P(T("image_link"))>>,
     image_gallery |-> <<P(G("additional_image_link")), P(G("additional_image_link"))>>,
     item_group_id |-> <<P(G("item_group_id")), P(G("item_group_id"))>>,
     category |-> <<>>,
     product_type |-> <<P(G("product_type")), P(G("product_type"))>>,
     google_product_category |-> <<P(G("google_product_category")), P(G("google_product_category"))>>,
     condition |-> <<P(G("condition")), P(G("condition"))>>],
    [name |-> "GOOGLE_ATOM",
     id |-> <<P(G("id")), P(G("id"))>>,
     title |-> <<P(T("title"))>>,
     link |-> <<P(G("link")), P(G("link"))>>,
     description |-> <<P(T("content")), P(C("encoded"))>>,
     price |-> <<P(G("price")), P(G("price"))>>,
     availability |-> <<P(G("availability")), P(G("availability"))>>,
     availability_hint |-> <<>>,
     brand |-> <<P(G("brand")), P(G("brand"))>>,
     mpn |-> <<P(G("mpn")), P(G("mpn"))>>,
     gtin |-> <<P(G("gtin")), P(G("gtin"))>>,
     image_primary |-> <<P(G("image_link")), P(G("image_link"))>>,
     image_gallery |-> <<P(G("additional_image_link")), P(G("additional_image_link"))>>,
     item_group_id |-> <<P(G("item_group_id")), P(G("item_group_id"))>>,
     category |-> <<>>,
     product_type |-> <<P(G("product_type")), P(G("product_type"))>>,
     google_product_category |-> <<P(G("google_product_category")), P(G("google_product_category"))>>,
     condition |-> <<P(G("condition")), P(G("condition"))>>]
>>

\* FIELD_MAPS[spec]
FIELD_MAP(spec) == FIELD_MAPS[CHOOSE i \in 1..Len(FIELD_MAPS) : FIELD_MAPS[i].name = spec]

gather_images(item, fm) ==
    LET prim == find_first_text(item, fm.image_primary)
        gallery == find_all_texts(item, fm.image_gallery)
        out1 == Dedup((IF prim # <<>> THEN <<prim>> ELSE <<>>)
                      \o SelectSeq(gallery, LAMBDA u : u # <<>>))
        enc == [i \in 1..Len(out1) |-> percent_encode_url(out1[i])]
    IN  Dedup(SelectSeq(enc, LAMBDA pu : pu # <<>>))

(***************************************************************************)
(* pages/2_Feed_Fixer.py: detection, extraction, unknown-spec fallback     *)
(***************************************************************************)
ITEM_PATHS ==
    [name \in {FIELD_MAPS[i].name : i \in 1..Len(FIELD_MAPS)} |->
        CASE name = "HEUREKA" -> <<D(T("SHOPITEM"))>>
          [] name = "COMPARI" -> <<D(T("Product"))>>
          [] name = "SKROUTZ" -> <<D(T("product"))>>
          [] name = "JEFTINIJE" -> <<D(T("Item"))>>
          [] name = "CENEO" -> <<D(T("o"))>>
          [] name = "GOOGLE_RSS" -> <<D(T("item"))>>
          \* the two sides of the "|" alternation
          [] name = "GOOGLE_ATOM" -> <<D(A("entry")), D(T("entry"))>>]

CRITICAL_KEYS == {"id", "title", "link", "image_primary", "price", "description"}

detect_source(root) ==
    LET root_local == lower(strip_ns(root.tag))
        has(tag) == find(root, D(T(tag))) # None
    IN  IF has("SHOPITEM") THEN "HEUREKA"
        ELSE IF (has("Product") /\ root_local \in {"products", "root", "xml", "export"})
                \/ has("Product")
        THEN "COMPARI"
        ELSE IF (has("product")
                 /\ root_local \in {"products", "mywebstore", "xml", "export"})
                \/ has("product")
        THEN "SKROUTZ"
        ELSE IF (root_local \in {"cnjexport", "cnejexport", "jeftinije", "ceneje"}
                 \/ has("Item"))
                /\ ~has("o") /\ has("Item")
        THEN "JEFTINIJE"
        ELSE IF has("o") THEN "CENEO"
        ELSE IF \E e \in Range(iter(root)) : lower(strip_ns(e.tag)) = "entry"
        THEN "GOOGLE_ATOM"
        ELSE IF has("item") THEN "GOOGLE_RSS"
        ELSE "UNKNOWN"

CORE_TAGS ==
    {"id", "identifier", "productid", "item_id", "title", "name", "productname",
     "description", "content", "encoded", "desc", "short_description",
     "long_description", "longdesc", "link", "url", "product_url", "image", "image_url",
     "imgurl", "image_link", "imgs", "mainimage", "price", "price_vat", "price_with_vat",
     "value", "availability", "in_stock", "stock", "availability_status", "avail",
     "delivery_date", "brand", "manufacturer", "mpn", "gtin", "ean", "barcode", "sku",
     "category", "categorytext", "product_type", "google_product_category",
     "item_group_id", "condition", "imgurl_alternative", "images", "gallery"}

\* the dict local name -> text of the first child of that name with text
collect_simple_attrs(item, core_keys) ==
    LET local(c) == lower(strip_ns(c.tag))
        kept == SelectSeq(item.children,
                          LAMBDA c : local(c) \notin core_keys /\ text_of(c) # <<>>)
    IN  [l \in {local(kept[i]) : i \in 1..Len(kept)} |->
            text_of(kept[CHOOSE i \in 1..Len(kept) :
                             /\ local(kept[i]) = l
                             /\ \A j \in 1..(i - 1) : local(kept[j]) # l])]

\* the keys of the "simple fields" loop
SimpleKeys ==
    {"id", "title", "link", "description", "price", "availability", "brand", "mpn",
     "gtin", "item_group_id", "category", "product_type", "google_product_category",
     "condition"}

\* one row of extract_by_map
extract_row(it, spec, fm) ==
    LET simple == [key \in SimpleKeys |-> find_first_text(it, fm[key])]
        hint == find_first_text(it, fm.availability_hint)
        in_stock == /\ spec = "HEUREKA" /\ simple["availability"] = <<>>
                    /\ hint # <<>> /\ isdigit(strip(hint)) /\ int(strip(hint)) < 3
    IN  [fields |-> [simple EXCEPT !["availability"] = IF in_stock THEN InStock ELSE @,
                                   !["link"] = percent_encode_url(@)],
         images |-> gather_images(it, fm),
         attrs |-> collect_simple_attrs(it, CORE_TAGS)]

extract_by_map(root, spec) ==
    IF spec \notin DOMAIN ITEM_PATHS THEN <<>>
    ELSE LET paths == ITEM_PATHS[spec]
             nodes == Flatten([i \in 1..Len(paths) |-> findall(root, paths[i])])
         IN  [i \in 1..Len(nodes) |-> extract_row(nodes[i], spec, FIELD_MAP(spec))]

candidate_item_nodes(root) ==
    LET guesses == <<D(T("SHOPITEM")), D(T("Product")), D(T("product")), D(T("Item")),
                     D(T("o")), D(T("item")), D(T("entry")), D(A("entry"))>>
        out1 == Flatten([i \in 1..Len(guesses) |-> findall(root, guesses[i])])
    IN  IF out1 = <<>> THEN root.children ELSE out1

\* the number of item nodes observed_local_tags looks at
ObservedLimit == 50

observed_local_tags(item_nodes) ==
    UNION {{lower(strip_ns(ch.tag)) : ch \in Range(it.children)} :
              it \in Range(Take(item_nodes, ObservedLimit))}

\* every key of a field map
MapKeys == SimpleKeys \cup {"availability_hint", "image_primary", "image_gallery"}

\* strip_ns(p.split("/")[-1]).lower() of the i-th path of a list, as
\* [prefix, local]: "./g:id" gives "g:id" and "./{ns}id" gives "id".  The
\* two spellings are one path here; FIELD_MAPS lists the prefixed one first.
last_token(paths, i) ==
    LET tag == paths[i].steps[Len(paths[i].steps)].tag
        clark == \E j \in 1..(i - 1) : paths[j] = paths[i]
        prefix == IF tag.ns = "" \/ clark THEN ""
                  ELSE IF tag.ns = GNS THEN "g"
                  ELSE IF tag.ns = CONTENTNS THEN "content"
                  ELSE "atom"
    IN  [prefix |-> prefix, local |-> lower(tag.local)]

\* score_similarity as the fraction <<numerator, denominator>>
score_similarity(seen_tags, fmap, item_tag_hint) ==
    LET seen == {[prefix |-> "", local |-> t] : t \in seen_tags}
        tokens(key) == {last_token(fmap[key], i) : i \in 1..Len(fmap[key])}
        expected == UNION {tokens(key) : key \in MapKeys}
        inter == Cardinality(seen \cap expected)
        union == Cardinality(seen \cup expected)
        crit_hits == Cardinality({k \in CRITICAL_KEYS : tokens(k) \cap seen # {}})
        preferred ==
            [name \in DOMAIN ITEM_PATHS |->
                CASE name = "HEUREKA" -> "shopitem"
                  [] name \in {"COMPARI", "SKROUTZ"} -> "product"
                  [] name \in {"JEFTINIJE", "GOOGLE_RSS"} -> "item"
                  [] name = "CENEO" -> "o"
                  [] name = "GOOGLE_ATOM" -> "entry"]
        bonus == IF item_tag_hint # "" /\ lower(item_tag_hint) = preferred[fmap.name]
                 THEN 1 ELSE 0
    IN  IF expected = {} THEN <<0, 1>>
        ELSE <<39 * inter + 3 * crit_hits * union + 12 * bonus * union, 60 * union>>

\* scored.sort(key=score, reverse=True)[0][0]: the first map, in FIELD_MAPS
\* order, that no map outscores
closest_map(root) ==
    LET items_guess == candidate_item_nodes(root)
        seen == observed_local_tags(items_guess)
        hint_tag == IF items_guess # <<>> THEN strip_ns(items_guess[1].tag) ELSE ""
        scored == [i \in 1..Len(FIELD_MAPS) |->
                      score_similarity(seen, FIELD_MAPS[i], hint_tag)]
        above(a, b) == a[1] * b[2] > b[1] * a[2]
        best == CHOOSE i \in 1..Len(FIELD_MAPS) :
                    /\ \A j \in 1..Len(FIELD_MAPS) : ~above(scored[j], scored[i])
                    /\ \A j \in 1..(i - 1) : above(scored[i], scored[j])
    IN  FIELD_MAPS[best].name

\* the transform step of the fixer page: detect, or fall back to the
\* closest map, then extract
transform(root) ==
    LET detected == detect_source(root)
        known == detected \in {FIELD_MAPS[i].name : i \in 1..Len(FIELD_MAPS)}
        best == IF known THEN detected ELSE closest_map(root)
    IN  [detected |-> detected, used |-> best, rows |-> extract_by_map(root, best)]

(***************************************************************************)
(* pages/2_Feed_Fixer.py: the steps of the page after extraction           *)
(***************************************************************************)
AvailabilityWords ==
    <<[to |-> InStock,
       from |-> {InStock, <<105, 110, 115, 116, 111, 99, 107>>,
                 <<97, 118, 97, 105, 108, 97, 98, 108, 101>>, <<121, 101, 115>>,
                 <<116, 114, 117, 101>>, <<49>>, <<111, 110>>}],
      [to |-> <<111, 117, 116, 32, 111, 102, 32, 115, 116, 111, 99, 107>>,
       from |-> {<<111, 117, 116, 32, 111, 102, 32, 115, 116, 111, 99, 107>>,
                 <<111, 117, 116, 111, 102, 115, 116, 111, 99, 107>>,
                 <<117, 110, 97, 118, 97, 105, 108, 97, 98, 108, 101>>, <<110, 111>>,
                 <<102, 97, 108, 115, 101>>, <<48>>, <<111, 102, 102>>}],
      [to |-> <<112, 114, 101, 111, 114, 100, 101, 114>>,
       from |-> {<<112, 114, 101, 111, 114, 100, 101, 114>>,
                 <<112, 114, 101, 45, 111, 114, 100, 101, 114>>}],
      [to |-> <<98, 97, 99, 107, 111, 114, 100, 101, 114>>,
       from |-> {<<98, 97, 99, 107, 111, 114, 100, 101, 114>>,
                 <<98, 97, 99, 107, 45, 111, 114, 100, 101, 114>>}]>>

\* the first word list that holds the stripped, lower-cased text decides;
\* any other text is returned as it is
normalize_availability(raw) ==
    LET v == ascii_lower(strip(raw))
        hits == SelectSeq(AvailabilityWords, LAMBDA w : v \in w.from)
    IN  IF hits # <<>> THEN hits[1].to ELSE raw

\* [i for i, r in enumerate(rows) if not (r.get("id") or "").strip()], 1-based
missing_id_indices(rows) ==
    SelectSeq([i \in 1..Len(rows) |-> i], LAMBDA i : strip(rows[i].fields["id"]) = <<>>)

normalize_rows(rows) ==
    [i \in 1..Len(rows) |->
        IF rows[i].fields["availability"] # <<>>
        THEN [rows[i] EXCEPT !.fields["availability"] = normalize_availability(@)]
        ELSE rows[i]]

\* faulty variant: rows are compared by id alone
dedupe_by_id(rows) ==
    LET key(i) == rows[i].fields["id"]
        unseen(i) == \A j \in 1..(i - 1) : key(j) # key(i)
        kept == SelectSeq([i \in 1..Len(rows) |-> i], unseen)
    IN  [k \in 1..Len(kept) |-> rows[kept[k]]]

\* the seen_pairs loop: a row is skipped when an earlier row has its
\* (id, link) key
dedupe(rows) ==
    LET key(i) == <<rows[i].fields["id"], rows[i].fields["link"]>>
        unseen(i) == \A j \in 1..(i - 1) : key(j) # key(i)
        kept == SelectSeq([i \in 1..Len(rows) |-> i], unseen)
    IN  [k \in 1..Len(kept) |-> rows[kept[k]]]

\* rows[:item_limit] when item_limit > 0
limit_rows(rows, item_limit) == IF item_limit > 0 THEN Take(rows, item_limit) ELSE rows

\* xml.sax.saxutils.escape: & < > become entities
escape(s) ==
    Flatten([i \in 1..Len(s) |->
        CASE s[i] = 38 -> <<38, 97, 109, 112, 59>>
          [] s[i] = 60 -> <<38, 108, 116, 59>>
          [] s[i] = 62 -> <<38, 103, 116, 59>>
          [] OTHER -> <<s[i]>>])

\* the item, id and link element each emitter writes
EMITTERS ==
    [target \in {"Google RSS", "Google Atom", "Skroutz", "Compari"} |->
        CASE target = "Google RSS" -> [item |-> T("item"), id |-> G("id"), link |-> T("link")]
          [] target = "Google Atom" -> [item |-> A("entry"), id |-> G("id"), link |-> G("link")]
          [] target = "Skroutz" -> [item |-> T("product"), id |-> T("id"), link |-> T("link")]
          [] target = "Compari" ->
                [item |-> T("Product"), id |-> T("Identifier"), link |-> T("Product_url")]]

\* the items of the emitted feed, reduced to what every emitter writes for
\* the id (always) and the link (when the row has one)
emit(target, rows) ==
    [i \in 1..Len(rows) |->
        Elem(EMITTERS[target].item, <<>>, <<>>,
             <<Leaf(EMITTERS[target].id, escape(rows[i].fields["id"]))>>
                 \o (IF rows[i].fields["link"] # <<>>
                     THEN <<Leaf(EMITTERS[target].link, escape(rows[i].fields["link"]))>>
                     ELSE <<>>))]

\* faulty variant: the missing-ID error does not stop the run
finish_unchecked(rows, target, do_avail_norm, do_dedupe, item_limit) ==
    LET missing == missing_id_indices(rows)
        normalized == IF do_avail_norm THEN normalize_rows(rows) ELSE rows
        deduped == IF do_dedupe THEN dedupe(normalized) ELSE normalized
        limited == limit_rows(deduped, item_limit)
    IN  [stopped |-> FALSE, missing |-> missing, rows |-> limited,
         feed |-> emit(target, limited)]

\* the page from the strict-ID check to the emitted feed; stopped is
\* st.stop() after the missing-ID error
finish(rows, target, do_avail_norm, do_dedupe, item_limit) ==
    LET missing == missing_id_indices(rows)
        normalized == IF do_avail_norm THEN normalize_rows(rows) ELSE rows
        deduped == IF do_dedupe THEN dedupe(normalized) ELSE normalized
        limited == limit_rows(deduped, item_limit)
    IN  IF missing # <<>>
        THEN [stopped |-> TRUE, missing |-> missing, rows |-> rows, feed |-> <<>>]
        ELSE [stopped |-> FALSE, missing |-> missing, rows |-> limited,
              feed |-> emit(target, limited)]

(***************************************************************************)
(* Inputs of the document runs                                             *)
(***************************************************************************)
\* "a", "b", " ", " a ", "a b", e-acute, "1"
Ta == <<97>>
Tb == <<98>>
Tblank == <<32>>
Tpadded == <<32, 97, 32>>
Tspace == <<97, 32, 98>>
Taccent == <<233>>
Tone == <<49>>

Item(tag, children) == Elem(tag, <<>>, <<>>, children)

\* items that recur in documents of any length
ProductItems ==
    {Item(T("product"), <<>>),
     Item(T("product"), <<Leaf(T("price_with_vat"), Tone)>>),
     Item(T("product"), <<Leaf(T("id"), Ta), Leaf(T("price_with_vat"), Tone),
                          Leaf(T("image"), Ta), Leaf(T("link"), Ta)>>),
     Item(T("product"), <<Leaf(T("price_with_vat"), Tone), Leaf(T("image"), <<>>),
                          Leaf(T("link"), Tspace)>>),
     Item(T("product"), <<Leaf(T("identifier"), Ta), Leaf(T("name"), Ta),
                          Leaf(T("product_url"), Taccent), Leaf(T("price"), Tone),
                          Leaf(T("image_url"), Tb)>>),
     Item(T("product"), <<Leaf(T("ProductId"), Tb), Leaf(T("name"), Ta),
                          Leaf(T("Product_url"), Ta), Leaf(T("price"), Tone),
                          Leaf(T("image_url"), Tb), Leaf(T("price_with_vat"), Tone),
                          Leaf(T("image"), Ta), Leaf(T("link"), Tb)>>)}

HeurekaItems ==
    {Item(T("SHOPITEM"), <<Leaf(T("ITEM_ID"), Ta), Leaf(T("PRODUCTNAME"), Ta),
                           Leaf(T("URL"), Ta), Leaf(T("IMGURL"), Tb),
                           Leaf(T("DELIVERY"), <<>>)>>),
     Item(T("SHOPITEM"), <<Leaf(T("ITEM_ID"), Tblank), Leaf(T("URL"), Taccent),
                           Leaf(T("DELIVERY_DATE"), Tone)>>)}

CenejeItems ==
    {Item(T("Item"), <<Leaf(T("ID"), Tblank), Leaf(T("id"), Tpadded), Leaf(T("name"), Ta),
                       Leaf(T("link"), Ta), Leaf(T("mainImage"), <<>>),
                       Leaf(T("image"), Tb), Leaf(T("price"), Tone),
                       Leaf(T("stock"), Tone)>>)}

GoogleItems ==
    {Item(T("item"), <<Leaf(G("id"), Ta), Leaf(T("title"), Ta), Leaf(T("description"), Ta),
                       Leaf(T("link"), Ta), Leaf(G("image_link"), Ta),
                       Leaf(G("availability"), Ta)>>),
     Item(A("entry"), <<Leaf(G("id"), Ta), Leaf(G("link"), Ta), Leaf(G("image_link"), Tb)>>)}

CeneoItems ==
    {Item(T("o"), <<Leaf(T("id"), Ta), Leaf(T("url"), Ta), Leaf(T("name"), Ta),
                    Leaf(T("price"), Tone), Leaf(T("cat"), Ta),
                    Elem(T("imgs"), <<>>, <<>>, <<Leaf(T("main"), Ta)>>)>>)}

OtherItems ==
    {Item(T("offer"), <<Leaf(T("name"), Ta), Leaf(T("price"), Tone)>>)}

ItemUniverse ==
    ProductItems \cup HeurekaItems \cup CenejeItems \cup GoogleItems \cup CeneoItems
        \cup OtherItems

\* variants of spelling and shape, one per document
VariantItems ==
    {Item(T("product"), <<Leaf(T("name"), Ta), Leaf(T("price"), Tone)>>),
     Item(T("Product"), <<Leaf(T("Price_With_Vat"), Tone), Leaf(T("Name"), Ta)>>),
     Item(T("Item"), <<Leaf(T("ID"), Ta), Leaf(T("link"), Tb)>>),
     Item(T("ITEM"), <<Leaf(T("id"), Ta)>>),
     Item(T("item"), <<Leaf(G("id"), Tb), Leaf(T("title"), Ta), Leaf(G("link"), Tspace)>>),
     Item(T("item"), <<Leaf(T("id"), Ta), Leaf(T("link"), Ta), Leaf(T("image_link"), Ta)>>),
     Item(T("entry"), <<Leaf(T("id"), Ta)>>),
     Elem(T("o"), <<>>, <<<<"id", Ta>>, <<"url", Tb>>>>, <<Leaf(T("name"), Ta)>>),
     Item(T("SHOPITEM"), <<Leaf(T("ITEM_ID"), Tb), Leaf(T("PRODUCTNAME"), Ta),
                           Leaf(T("URL"), Tspace), Leaf(T("IMGURL"), Taccent),
                           Leaf(T("DELIVERY"), Tone)>>)}

RootTags == {T("rss"), A("feed"), T("products"), T("offers"), T("SHOP"), T("Product")}

MaxItems == 2

RECURSIVE SeqsOfLen(_, _)
SeqsOfLen(S, k) ==
    IF k = 0 THEN {<<>>} ELSE {Append(s, x) : s \in SeqsOfLen(S, k - 1), x \in S}

SeqsUpTo(S, n) == UNION {SeqsOfLen(S, k) : k \in 0..n}

\* item lists: any items of the universe, or one variant item next to at
\* most one item of the universe
ItemLists ==
    SeqsUpTo(ItemUniverse, MaxItems)
        \cup {<<v>> : v \in VariantItems}
        \cup {<<v, it>> : v \in VariantItems, it \in ItemUniverse}
        \cup {<<it, v>> : v \in VariantItems, it \in ItemUniverse}

\* a feed of entries with many kinds of children next to one product:
\* <products><product>id, link, image, availability</product>
\* <entry>the 14 Google tags</entry><entry>14 other tags</entry>
\* <entry/><entry/><entry/></products>
CrowdedDocuments ==
    LET Leaves(names) == [i \in 1..Len(names) |-> Leaf(T(names[i]), <<>>)]
    IN  {Elem(T("products"), <<>>, <<>>,
              <<Item(T("product"), <<Leaf(T("id"), Ta), Leaf(T("link"), Ta),
                                     Leaf(T("image"), Ta), Leaf(T("availability"), Ta)>>),
                Item(T("entry"),
                     Leaves(<<"id", "title", "description", "link", "image_link", "price",
                              "availability", "brand", "mpn", "gtin", "condition",
                              "google_product_category", "product_type", "shipping">>)),
                Item(T("entry"),
                     Leaves(<<"item_id", "productname", "url", "imgurl", "categorytext",
                              "delivery", "image", "price_with_vat", "category_id",
                              "mainimage", "cat", "imgs", "main", "desc">>)),
                Item(T("entry"), <<>>), Item(T("entry"), <<>>), Item(T("entry"), <<>>)>>)}

\* rss documents of unusual Google feeds:
\* <rss><item>title, link</item><item>id, link, image_link</item></rss>
\* <rss><Item>g:id, g:link</Item></rss>
\* <rss><atom:item>g:id, g:link</atom:item></rss>
OddGoogleDocuments ==
    {Elem(T("rss"), <<>>, <<>>,
          <<Item(T("item"), <<Leaf(T("title"), Ta), Leaf(T("link"), Ta)>>),
            Item(T("item"), <<Leaf(T("id"), Ta), Leaf(T("link"), Ta),
                              Leaf(T("image_link"), Ta)>>)>>),
     Elem(T("rss"), <<>>, <<>>,
          <<Item(T("Item"), <<Leaf(G("id"), Ta), Leaf(G("link"), Ta)>>)>>),
     Elem(T("rss"), <<>>, <<>>,
          <<Item(A("item"), <<Leaf(G("id"), Ta), Leaf(G("link"), Ta)>>)>>)}

\* <products><product><name>a</name><availability/></product></products>
EmptyAvailabilityDocuments ==
    {Elem(T("products"), <<>>, <<>>,
          <<Item(T("product"), <<Leaf(T("name"), Ta), Leaf(T("availability"), <<>>)>>)>>)}

Documents ==
    {Elem(tag, <<>>, <<>>, items) : tag \in RootTags, items \in ItemLists}
        \cup CrowdedDocuments \cup OddGoogleDocuments \cup EmptyAvailabilityDocuments

\* the upload: bytes the XML parser rejects, or a document
Feeds ==
    {[well_formed |-> FALSE, root |-> None]}
        \cup {[well_formed |-> TRUE, root |-> d] : d \in Documents}

(***************************************************************************)
(* State machine                                                           *)
(***************************************************************************)
Unset == [unset |-> TRUE]
NotRun == "not run"

NoCall ==
    /\ arg = Unset
    /\ ret = Unset
    /\ url_arg = Unset
    /\ issues = Unset

Init ==
    /\ feed_bytes \in Feeds
    /\ out = Unset
    /\ detected_spec = NotRun
    /\ NoCall

\* result = analyze_feed(feed_bytes)
AnalyzeFeed ==
    /\ feed_bytes # Unset
    /\ out = Unset
    /\ out' = analyze_feed(feed_bytes)
    /\ UNCHANGED <<feed_bytes, detected_spec, arg, ret, url_arg, issues>>

\* feed_specs.detect_spec(root) on the parsed document
DetectSpec ==
    /\ feed_bytes # Unset
    /\ feed_bytes.well_formed
    /\ detected_spec = NotRun
    /\ detected_spec' = detect_spec(feed_bytes.root)
    /\ UNCHANGED <<feed_bytes, out, arg, ret, url_arg, issues>>

Next == AnalyzeFeed \/ DetectSpec

Spec == Init /\ [][Next]_vars

(***************************************************************************)
(* Properties of analyze_feed and detect_spec                              *)
(***************************************************************************)
Analyzed == out # Unset /\ feed_bytes.well_formed
Root == feed_bytes.root

\* indices of the SPECS entries whose detect_fn accepts the document
Accepting == {i \in 1..Len(SPECS) : detect_fn(SPECS[i], Root)}

Recognized == Analyzed /\ out.detected \notin {NoName, "Unrecognized"}
DetectedSpec == SPECS[CHOOSE i \in 1..Len(SPECS) : SPECS[i].name = out.detected]

\* the text a node path reads on an item: the stripped text of its first match
PathText(it, path) ==
    LET m == findall(it, path) IN IF m = <<>> THEN <<>> ELSE strip(m[1].text)

\* the first non-empty entry of a list of texts, "" when all are empty
FirstNonEmpty(vals) ==
    IF \E i \in 1..Len(vals) : vals[i] # <<>>
    THEN vals[CHOOSE i \in 1..Len(vals) :
                 vals[i] # <<>> /\ \A j \in 1..(i - 1) : vals[j] = <<>>]
    ELSE <<>>

FieldOf(it, paths) == FirstNonEmpty([i \in 1..Len(paths) |-> PathText(it, paths[i])])

ChildTags(e) == {e.children[i].tag : i \in 1..Len(e.children)}
ChildNamesLower(e) == {lower(e.children[i].tag.local) : i \in 1..Len(e.children)}
LocalNamesLower(root) == {lower(e.tag.local) : e \in Range(iter(root))}
ProductElements(root) ==
    SelectSeq(Tail(iter(root)), LAMBDA e : e.tag = T("product"))

\* C2: the detected spec of analyze_feed is the earliest SPECS entry (order
\* Google RSS, Google Atom, Heureka, Compari, Skroutz, Ceneje, Ceneo) whose
\* detect_fn accepts the document; a later accepting entry never wins.
C2_EarliestAcceptingSpecWins ==
    /\ [i \in 1..Len(SPECS) |-> SPECS[i].name]
          = <<GoogleRssName, GoogleAtomName, HeurekaName, CompariName, SkroutzName,
              CenejeName, CeneoName>>
    /\ Analyzed =>
          LET accepting == Accepting
          IN  accepting # {} =>
                  \E i \in accepting :
                      /\ \A j \in accepting : i <= j
                      /\ out.detected = SPECS[i].name

C2_Witness ==
    /\ Analyzed
    /\ out.detected = CompariName
    /\ Cardinality(Accepting) >= 2

\* C3: on a document with product elements and no entry, item, SHOPITEM or o
\* element, detect_spec returns Skroutz whenever some product element has a
\* price_with_vat child, and Compari only when no product element has one.
C3_SkroutzIffSomeProductHasVat ==
    (/\ detected_spec # NotRun
     /\ ProductElements(Root) # <<>>
     /\ LocalNamesLower(Root) \cap {"entry", "item", "shopitem", "o"} = {})
    => LET some_vat == \E p \in Range(ProductElements(Root)) :
                           T("price_with_vat") \in ChildTags(p)
       IN  /\ some_vat => detected_spec = SkroutzName
           /\ detected_spec = CompariName => ~some_vat

CompariOnly == {"identifier", "productid", "product_url", "image_url"}

NoEarlierFormat(root) ==
    /\ ~(/\ lower(root.tag.local) = "rss"
         /\ "item" \in LocalNamesLower(root)
         /\ \E e \in Range(iter(root)) : e.tag.ns = GNS)
    /\ ~(/\ lower(root.tag.local) = "feed"
         /\ "entry" \in LocalNamesLower(root)
         /\ \E e \in Range(iter(root)) : e.tag.ns = GNS)
    /\ \A e \in Range(Tail(iter(root))) : e.tag # T("SHOPITEM")

C5_ParseFailureOutcome ==
    (out # Unset /\ ~feed_bytes.well_formed) =>
        /\ out.xml_ok = FALSE
        /\ out.severity = "FAIL"
        /\ out.notes = <<"XML parse error">>
        /\ out.detected = NoName
        /\ out.detected # "Unrecognized"
        /\ \A i \in 1..Len(SPECS) : out.detected # SPECS[i].name
        /\ out.items = 0
        /\ out.ids = <<>> /\ out.urls = <<>> /\ out.imgs = <<>>
        /\ out.top_candidates = None
        /\ out.unrecognized_details = None

C5_Witness == out # Unset /\ ~feed_bytes.well_formed

\* C6: for a well-formed document that no StrictSpec predicate accepts,
\* analyze_feed returns detected = 'Unrecognized', top_candidates = the two
\* highest-scoring specs in descending score order, and
\* unrecognized_details.closest_spec = top_candidates[0].
C6_UnrecognizedHasTopTwo ==
    (Analyzed /\ Accepting = {}) =>
        /\ out.detected = "Unrecognized"
        /\ Len(out.top_candidates) = 2
        /\ LET scored == [i \in 1..Len(SPECS) |->
                              score_spec_for_diagnostics(Root, SPECS[i])]
           IN  \E a, b \in 1..Len(SPECS) :
                   /\ a # b
                   /\ out.top_candidates[1] = scored[a]
                   /\ out.top_candidates[2] = scored[b]
                   /\ out.top_candidates[1].score >= out.top_candidates[2].score
                   /\ \A c \in 1..Len(SPECS) \ {a, b} :
                         scored[c].score <= out.top_candidates[2].score
        /\ out.unrecognized_details.closest_spec = out.top_candidates[1]

C6_Witness ==
    /\ Analyzed
    /\ Accepting = {}
    /\ out.detected = "Unrecognized"
    /\ out.top_candidates[1].name = SkroutzName
    /\ out.top_candidates[1].score > out.top_candidates[2].score
    /\ out.top_candidates[2].score
          > score_spec_for_diagnostics(Root, SPECS[1]).score

\* C7: for a recognized feed with n >= 1 items, ids, urls and imgs each have
\* exactly n entries, entry i read from the i-th item in document order and
\* empty where the item lacks the field: a missing field drops no item and
\* stops neither the later items nor the item's other fields.
C7_OneEntryPerItem ==
    (Recognized /\ out.items >= 1) =>
        LET items == items_getter(DetectedSpec, Root)
            n == Len(items)
        IN  /\ out.items = n
            /\ Len(out.ids) = n /\ Len(out.urls) = n /\ Len(out.imgs) = n
            /\ \A i \in 1..n :
                  /\ out.ids[i] = FieldOf(items[i], DetectedSpec.id_xpath)
                  /\ out.urls[i] = FieldOf(items[i], DetectedSpec.url_xpath)
                  /\ out.imgs[i] = FieldOf(items[i], DetectedSpec.image_xpath)

C7_Witness ==
    /\ Recognized
    /\ out.items = 2
    /\ out.ids[1] = <<>> /\ out.urls[1] # <<>>
    /\ out.ids[2] # <<>> /\ out.imgs[2] # <<>>

\* the items of the recognized feed and the positions where a value is the
\* id / the link of an item
Items == items_getter(DetectedSpec, Root)
FieldsOf(items, paths) == [i \in 1..Len(items) |-> FieldOf(items[i], paths)]
IdFields == FieldsOf(Items, DetectedSpec.id_xpath)
LinkFields == FieldsOf(Items, DetectedSpec.url_xpath)
PositionsOf(fields, v) == {i \in 1..Len(fields) : fields[i] = v}
IdPositions(v) == PositionsOf(IdFields, v)
LinkPositions(v) == PositionsOf(LinkFields, v)
IdValues == Range(IdFields)
LinkValues == Range(LinkFields)

\* C14: on a recognized feed, duplicates.ids (duplicates.urls) holds a value
\* exactly when the value is non-empty and is the id (the link) of at least
\* two items; a value that occurs once and the empty id or link never appear.
C14_DuplicatesAreRepeatedNonEmptyValues ==
    Recognized =>
        /\ \A v \in DOMAIN out.duplicates.ids \cup IdValues \cup {<<>>} :
              v \in DOMAIN out.duplicates.ids
                  <=> (v # <<>> /\ Cardinality(IdPositions(v)) >= 2)
        /\ \A v \in DOMAIN out.duplicates.urls \cup LinkValues \cup {<<>>} :
              v \in DOMAIN out.duplicates.urls
                  <=> (v # <<>> /\ Cardinality(LinkPositions(v)) >= 2)

\* two items without an id share a link
C14_Witness ==
    /\ Recognized
    /\ Cardinality(IdPositions(<<>>)) >= 2
    /\ DOMAIN out.duplicates.ids = {}
    /\ DOMAIN out.duplicates.urls # {}

\* the entries of a duplicates dict
Entries(d) == {<<v, d[v]>> : v \in DOMAIN d}

\* (first position, later position, value) for every later occurrence of a
\* non-empty value
LaterOccurrences(Positions(_), values) ==
    UNION {LET first == CHOOSE p \in Positions(v) : \A q \in Positions(v) : p <= q
           IN  {<<first, q, v>> : q \in Positions(v) \ {first}} :
           v \in values \ {<<>>}}

CarriedTags(i) == union_child_localnames(items_getter(SPECS[i], Root))
ScoreOf(i) == score_spec_for_diagnostics(Root, SPECS[i]).score

C17_DetectorsAgree ==
    (Analyzed /\ detected_spec # NotRun) =>
        IF out.detected = "Unrecognized" THEN detected_spec = "UNKNOWN"
        ELSE detected_spec = out.detected

\* some non-empty value is the id, or the link, of two items of the feed
HasDuplicate ==
    \/ \E v \in IdValues \ {<<>>} : Cardinality(IdPositions(v)) >= 2
    \/ \E v \in LinkValues \ {<<>>} : Cardinality(LinkPositions(v)) >= 2

C30_AcceptedSpecHasItems ==
    Analyzed =>
        /\ \A i \in Accepting : items_getter(SPECS[i], Root) # <<>>
        /\ ~(/\ Recognized
             /\ out.items = 0
             /\ out.severity = "FAIL"
             /\ out.notes = <<"No items found for detected transformation.">>)

\* C19: whenever a product URL or an image URL of a recognized feed holds a
\* literal space or a character above 127 (url_issues lists it), the
\* severity is WARN or FAIL, never PASS.
C19_UrlIssuesNeverPass ==
    (/\ Recognized
     /\ Items # <<>>
     /\ \/ \E u \in Range(out.urls) \cup Range(out.imgs) : has_space(u) \/ has_non_ascii(u)
        \/ out.url_issues.products.spaces # <<>>
        \/ out.url_issues.products.non_ascii # <<>>
        \/ out.url_issues.images.spaces # <<>>
        \/ out.url_issues.images.non_ascii # <<>>)
    => out.severity \in {"WARN", "FAIL"}

\* the first element below the root whose tag is item, None when there is none
FirstItem(root) ==
    LET hits == SelectSeq(Tail(iter(root)), LAMBDA e : e.tag = T("item"))
    IN  IF hits = <<>> THEN None ELSE Head(hits)

\* the serialized document holds the Google namespace string: some element
\* is in the namespace
HoldsGoogleNamespace(root) == \E e \in Range(iter(root)) : e.tag.ns = GNS

LooksGoogleWithoutNamespace(root) ==
    /\ lower(root.tag.local) = "rss"
    /\ ~HoldsGoogleNamespace(root)
    /\ FirstItem(root) # None
    /\ {"id", "link", "image_link"} \subseteq ChildNamesLower(FirstItem(root))

\* C23: detect_spec returns 'Google Merchant (no-namespace) RSS' exactly
\* when the root's local name is rss, the Google namespace string is absent
\* from the document and the first item element has id, link and image_link
\* children, whatever SHOPITEM, o, Item or product elements the document
\* also holds.
C23_NoNamespaceRssExactly ==
    detected_spec # NotRun =>
        (detected_spec = GoogleNoNsName <=> LooksGoogleWithoutNamespace(Root))

\* the classification on a document that also holds a SHOPITEM, an o, an
\* Item or a product element
C23_Witness ==
    /\ detected_spec = GoogleNoNsName
    /\ LocalNamesLower(Root) \cap {"shopitem", "o", "product"} # {}

\* C24: a document that holds the Google namespace string and an element
\* whose local name is item in any letter case or namespace, and no entry,
\* SHOPITEM, o or product element, is detected by detect_spec as
\* 'Google Merchant (g:) RSS'.
C24_OddGoogleItemIsGoogleRss ==
    (/\ detected_spec # NotRun
     /\ HoldsGoogleNamespace(Root)
     /\ "item" \in LocalNamesLower(Root)
     /\ LocalNamesLower(Root) \cap {"entry", "shopitem", "o", "product"} = {})
    => detected_spec = GoogleRssName

\* an availability selector of the spec returns a non-empty value for the item
AvailabilityRead(it, spec) == FieldOf(it, spec.availability_xpath) # <<>>

\* the item has a direct child named by an availability alias of the spec
AvailabilityChild(it, spec) ==
    ChildNamesLower(it) \cap Range(spec.availability_aliases) # {}

SpecNamed(name) == SPECS[CHOOSE i \in 1..Len(SPECS) : SPECS[i].name = name]

\* the availability rate (in thousandths) of a spec's sampled items when
\* Has(item) decides which items count
RateOf(spec, Has(_)) ==
    LET sample == Take(items_getter(spec, Root), SampleLimit)
    IN  RoundHalfEven(1000 * Len(SelectSeq(sample, Has)), Max(Len(sample), 1))

\* C25 as stated: an item counts as having availability only if an
\* availability selector returns a non-empty value for it; every other item
\* is counted in missing_availability_count and leaves the availability
\* rate of closest-match scoring alone.
C25_AvailabilityNeedsValue ==
    /\ (Recognized /\ Items # <<>>) =>
          LET spec == DetectedSpec
          IN  out.missing_availability_count
                  = Len(SelectSeq(Items, LAMBDA it : ~AvailabilityRead(it, spec)))
    /\ (Analyzed /\ out.detected = "Unrecognized") =>
          \A k \in 1..Len(out.top_candidates) :
              LET spec == SpecNamed(out.top_candidates[k].name)
              IN  out.top_candidates[k].availability_rate
                      = RateOf(spec, LAMBDA it : AvailabilityRead(it, spec))

\* C25 (amended): an item counts as having availability if an availability
\* selector returns a non-empty value for it or it has a direct child whose
\* namespace-stripped, lower-cased name is an availability alias of the
\* spec, even an empty one; only an item with neither is counted in
\* missing_availability_count and does not raise the availability rate.
C25_AvailabilityNeedsValueOrAliasChild ==
    /\ (Recognized /\ Items # <<>>) =>
          LET spec == DetectedSpec
          IN  out.missing_availability_count
                  = Len(SelectSeq(Items, LAMBDA it : ~(\/ AvailabilityRead(it, spec)
                                                       \/ AvailabilityChild(it, spec))))
    /\ (Analyzed /\ out.detected = "Unrecognized") =>
          \A k \in 1..Len(out.top_candidates) :
              LET spec == SpecNamed(out.top_candidates[k].name)
              IN  out.top_candidates[k].availability_rate
                      = RateOf(spec, LAMBDA it : \/ AvailabilityRead(it, spec)
                                                 \/ AvailabilityChild(it, spec))

\* a recognized feed with an item whose only availability element is empty,
\* and an unrecognized one whose closest spec has such an item
C25_Witness ==
    \/ /\ Recognized
       /\ \E it \in Range(Items) :
             ~AvailabilityRead(it, DetectedSpec) /\ AvailabilityChild(it, DetectedSpec)
       /\ out.missing_availability_count = 0
    \/ /\ Analyzed /\ out.detected = "Unrecognized"
       /\ out.top_candidates[1].availability_rate > 0
       /\ \A it \in Range(items_getter(SpecNamed(out.top_candidates[1].name), Root)) :
             ~AvailabilityRead(it, SpecNamed(out.top_candidates[1].name))

\* the aliases of a required group: the names that 'a|b' joins
AliasesOf(g) ==
    IF g = "identifier|productid" THEN {"identifier", "productid"}
    ELSE IF g = "mainimage|image" THEN {"mainimage", "image"}
    ELSE {g}

\* positions of the items without a direct child named by an alias of g
Lacking(items, g) == {i \in 1..Len(items) : ChildNamesLower(items[i]) \cap AliasesOf(g) = {}}

\* C26: on a recognized feed missing_required[g] is the number of items
\* without a direct child whose namespace-stripped, lower-cased tag name is
\* an alias of the required group g; a group no item lacks does not appear,
\* and every count is between 1 and the item count.
C26_MissingRequiredCountsLackingItems ==
    (Recognized /\ Items # <<>>) =>
        LET items == Items
            groups == Range(DetectedSpec.required_item_children)
        IN  /\ DOMAIN out.missing_required = {g \in groups : Lacking(items, g) # {}}
            /\ \A g \in DOMAIN out.missing_required :
                  /\ out.missing_required[g] = Cardinality(Lacking(items, g))
                  /\ out.missing_required[g] \in 1..out.items

\* two items: the first satisfies an 'a|b' group by one alias only, so the
\* group is counted once, for the second item alone
C26_Witness ==
    /\ Recognized /\ Len(Items) = 2
    /\ \E g \in DOMAIN out.missing_required :
          /\ Cardinality(AliasesOf(g)) = 2
          /\ Cardinality(AliasesOf(g) \cap ChildNamesLower(Items[1])) = 1
          /\ out.missing_required[g] = 1
    /\ \E g \in DOMAIN out.missing_required : out.missing_required[g] = 2

(***************************************************************************)
(* Calls of the scalar field readers on one item                           *)
(***************************************************************************)
\* items whose alias children disagree
AliasItems ==
    {Item(T("Item"), <<Leaf(T("Id"), Tblank), Leaf(T("ID"), Ta), Leaf(T("id"), Tb),
                       Leaf(T("Url"), <<>>), Leaf(T("URL"), Tspace), Leaf(T("link"), Ta)>>),
     Item(T("product"), <<Leaf(T("Identifier"), Tblank), Leaf(T("identifier"), Tpadded),
                          Leaf(T("ProductId"), Tb), Leaf(T("image"), Tb),
                          Leaf(T("image_url"), Ta)>>),
     Item(T("product"), <<Leaf(T("id"), Tb), Leaf(T("id"), Ta), Leaf(T("link"), Tblank),
                          Leaf(T("link"), Ta)>>),
     Elem(T("o"), <<>>, <<<<"id", Tpadded>>, <<"url", Tspace>>, <<"avail", Tblank>>,
                         <<"stock", Tone>>>>,
          <<Elem(T("imgs"), <<>>, <<>>,
                 <<Elem(T("main"), Ta, <<<<"url", Tblank>>>>, <<>>)>>),
            Leaf(T("image"), Tb)>>),
     Item(A("entry"), <<Elem(A("link"), Tb, <<<<"rel", Ta>>, <<"href", Tblank>>>>, <<>>),
                        Elem(A("link"), Ta, <<<<"rel", Alternate>>, <<"href", Tspace>>>>,
                             <<>>),
                        Leaf(G("link"), Tb)>>),
     Item(T("item"), <<Leaf(T("link"), Tblank), Leaf(G("link"), Ta),
                       Leaf(T("image_link"), Ta), Leaf(G("image_link"), Tb)>>)}

ReaderItems == ItemUniverse \cup VariantItems \cup AliasItems

\* the selector lists each reader is called with
FirstPathLists ==
    {SPEC[i][f] : i \in 1..Len(SPEC),
                  f \in {"id_paths", "link_paths", "image_primary_paths",
                         "availability_paths"}}
GetTextPathLists ==
    {SPECS[i][f] : i \in 1..Len(SPECS),
                   f \in {"id_xpath", "url_xpath", "image_xpath", "availability_xpath"}}
FindFirstTextPathLists ==
    {FIELD_MAPS[i][f] : i \in 1..Len(FIELD_MAPS),
                        f \in {"id", "title", "link", "price", "availability", "brand",
                               "gtin", "mpn", "image_primary"}}

ReaderInit ==
    /\ arg \in ReaderItems
    /\ ret = Unset
    /\ feed_bytes = Unset /\ out = Unset /\ detected_spec = NotRun
    /\ url_arg = Unset /\ issues = Unset

CallFirst ==
    /\ arg # Unset /\ ret = Unset
    /\ \E paths \in FirstPathLists :
           ret' = [fn |-> "_first", paths |-> paths, value |-> _first(arg, paths)]
    /\ UNCHANGED <<feed_bytes, out, detected_spec, arg, url_arg, issues>>

CallGetText ==
    /\ arg # Unset /\ ret = Unset
    /\ \E paths \in GetTextPathLists :
           ret' = [fn |-> "get_text", paths |-> paths, value |-> get_text(arg, paths)]
    /\ UNCHANGED <<feed_bytes, out, detected_spec, arg, url_arg, issues>>

CallFindFirstText ==
    /\ arg # Unset /\ ret = Unset
    /\ \E paths \in FindFirstTextPathLists :
           ret' = [fn |-> "find_first_text", paths |-> paths,
                   value |-> find_first_text(arg, paths)]
    /\ UNCHANGED <<feed_bytes, out, detected_spec, arg, url_arg, issues>>

ReaderNext == CallFirst \/ CallGetText \/ CallFindFirstText
ReaderSpec == ReaderInit /\ [][ReaderNext]_vars

\* what one selector yields on an item: the stripped text of the first node
\* it matches, or the stripped value of the named attribute of that node
SelectorYield(it, path) ==
    IF path.attr = "" THEN PathText(it, path)
    ELSE IF path.steps = <<>>
         THEN (IF \E k \in 1..Len(it.attrib) : it.attrib[k][1] = path.attr
               THEN strip(it.attrib[CHOOSE k \in 1..Len(it.attrib) :
                                       it.attrib[k][1] = path.attr][2])
               ELSE <<>>)
    ELSE LET m == findall(it, WithAttr(path, ""))
         IN  IF m = <<>> THEN <<>>
             ELSE IF \E k \in 1..Len(m[1].attrib) : m[1].attrib[k][1] = path.attr
             THEN strip(m[1].attrib[CHOOSE k \in 1..Len(m[1].attrib) :
                                       m[1].attrib[k][1] = path.attr][2])
             ELSE <<>>

Yields == [i \in 1..Len(ret.paths) |-> SelectorYield(arg, ret.paths[i])]

\* C8: _first, get_text and find_first_text return the value of the
\* lowest-positioned selector that yields a non-empty stripped value, and an
\* empty result (None for get_text) only when no selector yields one; a later
\* selector's value is never merged in or preferred.
C8_FirstNonEmptySelectorWins ==
    (ret # Unset /\ ret.fn \in {"_first", "get_text", "find_first_text"}) =>
        IF \E i \in 1..Len(ret.paths) : Yields[i] # <<>>
        THEN \E i \in 1..Len(ret.paths) :
                 /\ Yields[i] # <<>>
                 /\ \A j \in 1..(i - 1) : Yields[j] = <<>>
                 /\ ret.value = Yields[i]
        ELSE ret.value = (IF ret.fn = "get_text" THEN NoText ELSE <<>>)

C8_Witness ==
    /\ ret # Unset
    /\ ret.fn = "find_first_text"
    /\ \E h, i, j \in 1..Len(ret.paths) :
          /\ h < i /\ i < j
          /\ findall(arg, ret.paths[h]) # <<>> /\ Yields[h] = <<>>
          /\ Yields[i] # <<>> /\ Yields[j] # <<>> /\ Yields[i] # Yields[j]
          /\ ret.value = Yields[i]

(***************************************************************************)
(* Calls of the collect-all image readers on one item                      *)
(***************************************************************************)
\* "", "a", "a b", "A:b", "a:b", "#"
GalleryTexts == {<<>>, Ta, Tspace, <<65, 58, 98>>, <<97, 58, 98>>, <<35>>}

MaxImgs == 2

\* <o><images><image/></images><imgs><main/><img url=.../>...</imgs></o>
GalleryItem(y, m, xs) ==
    Item(T("o"),
         <<Elem(T("images"), <<>>, <<>>, <<Leaf(T("image"), y)>>),
           Elem(T("imgs"), <<>>, <<>>,
                <<Elem(T("main"), m, <<<<"url", m>>>>, <<>>)>>
                    \o [i \in 1..Len(xs) |-> Elem(T("img"), xs[i], <<<<"url", xs[i]>>>>,
                                                  <<>>)])>>)

GalleryItems ==
    {GalleryItem(y, m, xs) : y \in GalleryTexts, m \in GalleryTexts,
                             xs \in SeqsUpTo(GalleryTexts, MaxImgs)}

GalleryInit ==
    /\ arg \in GalleryItems
    /\ ret = Unset
    /\ feed_bytes = Unset /\ out = Unset /\ detected_spec = NotRun
    /\ url_arg = Unset /\ issues = Unset

CallGatherGallery ==
    /\ arg # Unset /\ ret = Unset
    /\ \E spec_name \in {CeneoName, SkroutzName}, do_percent_encode \in BOOLEAN :
           ret' = [fn |-> "gather_gallery", spec_name |-> spec_name,
                   do_percent_encode |-> do_percent_encode,
                   value |-> gather_gallery(arg, spec_name, do_percent_encode)]
    /\ UNCHANGED <<feed_bytes, out, detected_spec, arg, url_arg, issues>>

CallGatherImages ==
    /\ arg # Unset /\ ret = Unset
    /\ \E spec_name \in {"CENEO", "SKROUTZ"} :
           ret' = [fn |-> "gather_images", spec_name |-> spec_name,
                   do_percent_encode |-> TRUE,
                   value |-> gather_images(arg, FIELD_MAP(spec_name))]
    /\ UNCHANGED <<feed_bytes, out, detected_spec, arg, url_arg, issues>>

GalleryNext == CallGatherGallery \/ CallGatherImages
GallerySpec == GalleryInit /\ [][GalleryNext]_vars

\* every non-empty stripped value one selector matches, in document order
RECURSIVE NonEmptyOf(_)
NonEmptyOf(vals) ==
    IF vals = <<>> THEN <<>>
    ELSE (IF Head(vals) = <<>> THEN <<>> ELSE <<Head(vals)>>) \o NonEmptyOf(Tail(vals))

NodeValue(n, attr) ==
    IF attr = "" THEN strip(n.text)
    ELSE IF \E k \in 1..Len(n.attrib) : n.attrib[k][1] = attr
         THEN strip(n.attrib[CHOOSE k \in 1..Len(n.attrib) : n.attrib[k][1] = attr][2])
         ELSE <<>>

MatchedBy(it, path) ==
    LET nodes == IF path.steps = <<>> THEN <<it>> ELSE findall(it, WithAttr(path, ""))
    IN  NonEmptyOf([k \in 1..Len(nodes) |-> NodeValue(nodes[k], path.attr)])

\* the matches of all the selectors, selector by selector
RECURSIVE Matched(_, _)
Matched(it, paths) ==
    IF paths = <<>> THEN <<>> ELSE MatchedBy(it, Head(paths)) \o Matched(it, Tail(paths))

FirstIndex(src, v) == CHOOSE k \in 1..Len(src) : src[k] = v /\ \A h \in 1..(k - 1) : src[h] # v

\* res lists each value of src once, at the place of its first occurrence
IsFirstOccurrenceList(res, src) ==
    /\ \A i, j \in 1..Len(res) : i # j => res[i] # res[j]
    /\ Range(res) = Range(src)
    /\ \A i, j \in 1..Len(res) : i < j => FirstIndex(src, res[i]) < FirstIndex(src, res[j])

\* the values the call collects: the gallery matches, after the first
\* non-empty primary image for gather_images
Collected ==
    IF ret.fn = "gather_gallery"
    THEN Matched(arg, SPEC_get(ret.spec_name).image_gallery_paths)
    ELSE LET fm == FIELD_MAP(ret.spec_name)
             prim == FirstNonEmpty([i \in 1..Len(fm.image_primary) |->
                                       SelectorYield(arg, fm.image_primary[i])])
         IN  (IF prim = <<>> THEN <<>> ELSE <<prim>>) \o Matched(arg, fm.image_gallery)

GalleryCall == ret # Unset /\ ret.fn \in {"gather_gallery", "gather_images"}

\* C9 as stated: gather_gallery and gather_images return every non-empty
\* matched value itself, in selector then document order, none twice, each at
\* its first occurrence.
C9_MatchedValuesReturned ==
    GalleryCall => IsFirstOccurrenceList(ret.value, NonEmptyOf(Collected))

Encoded ==
    NonEmptyOf([i \in 1..Len(Collected) |->
                   IF ret.do_percent_encode THEN percent_encode_url(Collected[i])
                   ELSE Collected[i]])

\* C9 (amended): gather_gallery and gather_images return the percent-encoded
\* form of every non-empty matched value (gather_gallery the value itself
\* when do_percent_encode is false), in selector then document order, with
\* gather_images putting the first non-empty primary image in front; a value
\* whose encoded form is empty is dropped; no returned value appears twice
\* and each stays where it first occurs, repeats being recognised on the
\* returned form.
C9_EncodedValuesReturned ==
    GalleryCall => IsFirstOccurrenceList(ret.value, Encoded)

C9_Witness ==
    /\ GalleryCall
    /\ ret.fn = "gather_images"
    /\ Len(NonEmptyOf(Collected)) = 4
    /\ Cardinality(Range(NonEmptyOf(Collected))) = 4
    /\ Len(ret.value) = 2
    /\ ret.value[1] \notin Range(Collected)

(***************************************************************************)
(* Calls of find_url_issues on a list of URLs                              *)
(***************************************************************************)
MaxUrls == 22

\* the i-th URL of a list: its own letter, then what its kind adds
UrlOf(kind, i) ==
    CASE kind = "empty" -> <<>>
      [] kind = "clean" -> <<64 + i>>
      [] kind = "space" -> <<64 + i, 32, 98>>
      [] kind = "non_ascii" -> <<64 + i, 233>>
      [] kind = "both" -> <<64 + i, 32, 233>>

\* the kinds repeat along the list
KindCycles ==
    {<<"clean">>, <<"empty">>, <<"space">>, <<"non_ascii">>, <<"both">>,
     <<"space", "clean">>, <<"empty", "both">>, <<"non_ascii", "space">>,
     <<"both", "clean", "space", "empty", "non_ascii">>,
     [i \in 1..MaxUrls |-> IF i = 1 THEN "empty" ELSE IF i = 2 THEN "both" ELSE "space"]}

UrlLists ==
    {[i \in 1..n |-> UrlOf(cycle[((i - 1) % Len(cycle)) + 1], i)] :
        n \in 0..MaxUrls, cycle \in KindCycles}

UrlInit ==
    /\ url_arg \in UrlLists
    /\ issues = Unset
    /\ feed_bytes = Unset /\ out = Unset /\ detected_spec = NotRun
    /\ arg = Unset /\ ret = Unset

FindUrlIssues ==
    /\ issues = Unset
    /\ issues' = find_url_issues(url_arg)
    /\ UNCHANGED <<feed_bytes, out, detected_spec, arg, ret, url_arg>>

UrlNext == FindUrlIssues
UrlSpec == UrlInit /\ [][UrlNext]_vars

\* positions of the non-empty URLs with a literal space / a code point > 127
SpacePositions ==
    {p \in 1..Len(url_arg) : url_arg[p] # <<>> /\ 32 \in Range(url_arg[p])}
NonAsciiPositions ==
    {p \in 1..Len(url_arg) : url_arg[p] # <<>> /\ \E c \in Range(url_arg[p]) : c > 127}

\* the k-th smallest position of S
Nth(S, k) == CHOOSE p \in S : Cardinality({q \in S : q < p}) = k - 1

\* C10 as stated: a URL is listed under 'spaces' (under 'non_ascii') only if
\* it has a literal space (a character above 127); every non-empty URL with
\* the defect is listed in its category, in input order; empty URLs are
\* never listed.
C10_EveryDefectiveUrlListed ==
    issues # Unset =>
        /\ Len(issues.spaces) = Cardinality(SpacePositions)
        /\ \A k \in 1..Len(issues.spaces) : issues.spaces[k] = url_arg[Nth(SpacePositions, k)]
        /\ Len(issues.non_ascii) = Cardinality(NonAsciiPositions)
        /\ \A k \in 1..Len(issues.non_ascii) :
              issues.non_ascii[k] = url_arg[Nth(NonAsciiPositions, k)]

\* C10 (amended): each category lists, in input order, the first 20 non-empty
\* URLs that have its defect (all of them when there are at most 20): only
\* URLs with a literal space under 'spaces', only URLs with a character above
\* 127 under 'non_ascii', and never an empty URL.
C10_FirstTwentyDefectiveUrlsListed ==
    issues # Unset =>
        /\ Len(issues.spaces) = Min(Cardinality(SpacePositions), 20)
        /\ \A k \in 1..Len(issues.spaces) : issues.spaces[k] = url_arg[Nth(SpacePositions, k)]
        /\ Len(issues.non_ascii) = Min(Cardinality(NonAsciiPositions), 20)
        /\ \A k \in 1..Len(issues.non_ascii) :
              issues.non_ascii[k] = url_arg[Nth(NonAsciiPositions, k)]
        /\ <<>> \notin Range(issues.spaces) \cup Range(issues.non_ascii)

C10_Witness ==
    /\ issues # Unset
    /\ Cardinality(SpacePositions) > 20
    /\ Len(issues.spaces) = 20
    /\ Len(issues.non_ascii) \in 1..19
    /\ \E p \in 1..Len(url_arg) : url_arg[p] = <<>>

(***************************************************************************)
(* Calls of percent_encode_url and of the encoding accessors on one URL    *)
(***************************************************************************)
\* "", "http:"
UrlSchemes == {<<>>, <<104, 116, 116, 112, 58>>}
\* "", "//h", "//a b", "//" e-acute
UrlNetlocs == {<<>>, <<47, 47, 104>>, <<47, 47, 97, 32, 98>>, <<47, 47, 233>>}
\* "", "/p", "/a b", "/" e-acute, "/a%20b", "a b"
UrlPaths ==
    {<<>>, <<47, 112>>, <<47, 97, 32, 98>>, <<47, 233>>, <<47, 97, 37, 50, 48, 98>>,
     <<97, 32, 98>>}
\* "", "?q=1", "?a b", "?%C3%A9"
UrlQueries ==
    {<<>>, <<63, 113, 61, 49>>, <<63, 97, 32, 98>>, <<63, 37, 67, 51, 37, 65, 57>>}
\* "", "#f", "#a b"
UrlFragments == {<<>>, <<35, 102>>, <<35, 97, 32, 98>>}

UrlTexts ==
    {s \o n \o p \o q \o f : s \in UrlSchemes, n \in UrlNetlocs, p \in UrlPaths,
                             q \in UrlQueries, f \in UrlFragments}

\* <item><link>u</link><g:image_link>u</g:image_link></item>
UrlItem(u) == Item(T("item"), <<Leaf(T("link"), u), Leaf(G("image_link"), u)>>)

MaxRounds == 2

EncodeInit ==
    /\ arg \in {[url |-> u, item |-> UrlItem(u)] : u \in UrlTexts}
    /\ ret = Unset
    /\ feed_bytes = Unset /\ out = Unset /\ detected_spec = NotRun
    /\ url_arg = Unset /\ issues = Unset

\* percent_encode_url(url)
CallPercentEncodeUrl ==
    /\ ret = Unset
    /\ ret' = [fn |-> "percent_encode_url", round |-> 1, input |-> arg.url,
               value |-> percent_encode_url(arg.url)]
    /\ UNCHANGED <<feed_bytes, out, detected_spec, arg, url_arg, issues>>

\* percent_encode_url applied to a value it returned
CallPercentEncodeAgain ==
    /\ ret # Unset /\ ret.fn = "percent_encode_url" /\ ret.round < MaxRounds
    /\ ret' = [fn |-> "percent_encode_url", round |-> ret.round + 1, input |-> ret.value,
               value |-> percent_encode_url(ret.value)]
    /\ UNCHANGED <<feed_bytes, out, detected_spec, arg, url_arg, issues>>

\* read_link(item, "Google Merchant (g:) RSS")
CallReadLink ==
    /\ ret = Unset
    /\ ret' = [fn |-> "read_link", round |-> 1, input |-> arg.url,
               value |-> read_link(arg.item, GoogleRssName)]
    /\ UNCHANGED <<feed_bytes, out, detected_spec, arg, url_arg, issues>>

\* gather_primary_image(item, "Google Merchant (g:) RSS")
CallGatherPrimaryImage ==
    /\ ret = Unset
    /\ ret' = [fn |-> "gather_primary_image", round |-> 1, input |-> arg.url,
               value |-> gather_primary_image(arg.item, GoogleRssName, TRUE)]
    /\ UNCHANGED <<feed_bytes, out, detected_spec, arg, url_arg, issues>>

EncodeNext ==
    CallPercentEncodeUrl \/ CallPercentEncodeAgain \/ CallReadLink \/ CallGatherPrimaryImage
EncodeSpec == EncodeInit /\ [][EncodeNext]_vars

\* C11: whatever the URL, the value percent_encode_url, read_link or
\* gather_primary_image returns holds no literal space and no character
\* above 127, so find_url_issues lists it in neither category.
C11_EncodedValueNeverFlagged ==
    ret # Unset =>
        /\ ~has_space(ret.value)
        /\ ~has_non_ascii(ret.value)
        /\ find_url_issues(<<ret.value>>) = [spaces |-> <<>>, non_ascii |-> <<>>]

\* C12: encoding an already-encoded URL returns it unchanged:
\* percent_encode_url(percent_encode_url(u)) = percent_encode_url(u).
C12_EncodingIsIdempotent ==
    (ret # Unset /\ ret.fn = "percent_encode_url" /\ ret.round >= 2) =>
        ret.value = ret.input

(***************************************************************************)
(* Calls of read_availability on one SHOPITEM                              *)
(***************************************************************************)
\* a child is absent (NoText) or present with a text
AvailabilityTexts == {NoText, <<>>, Ta}
DeliveryTexts == {NoText, Tblank, Tone}
LowerDeliveryTexts == {NoText, Tb}
AvailabilityDescTexts == {NoText, Ta}
\* absent, "", "0", "2", "3", "12", "a", " 1 "
DeliveryDateTexts ==
    {NoText, <<>>, <<48>>, <<50>>, <<51>>, <<49, 50>>, Ta, <<32, 49, 32>>}

OptLeaf(tag, t) == IF t = NoText THEN <<>> ELSE <<Leaf(tag, t)>>

ShopItems ==
    {Item(T("SHOPITEM"),
          OptLeaf(T("AVAILABILITY"), av) \o OptLeaf(T("DELIVERY"), de)
              \o OptLeaf(T("delivery"), lo) \o OptLeaf(T("AVAILABILITY_DESC"), ad)
              \o OptLeaf(T("DELIVERY_DATE"), dd)) :
        av \in AvailabilityTexts, de \in DeliveryTexts, lo \in LowerDeliveryTexts,
        ad \in AvailabilityDescTexts, dd \in DeliveryDateTexts}

AvailabilityInit ==
    /\ arg \in ShopItems
    /\ ret = Unset
    /\ feed_bytes = Unset /\ out = Unset /\ detected_spec = NotRun
    /\ url_arg = Unset /\ issues = Unset

CallReadAvailability ==
    /\ arg # Unset /\ ret = Unset
    /\ \E spec_name \in {HeurekaName, CenejeName} :
           ret' = [fn |-> "read_availability", spec_name |-> spec_name,
                   value |-> read_availability(arg, spec_name)]
    /\ UNCHANGED <<feed_bytes, out, detected_spec, arg, url_arg, issues>>

AvailabilityNext == CallReadAvailability
AvailabilitySpec == AvailabilityInit /\ [][AvailabilityNext]_vars

\* the stripped text of the item's first child named local, "" when the
\* child is absent or blank
ChildValue(it, local) ==
    LET hits == SelectSeq(it.children, LAMBDA c : c.tag = T(local))
    IN  IF hits = <<>> THEN <<>> ELSE strip(hits[1].text)

\* C13: for 'Heureka strict', an item with no non-empty AVAILABILITY,
\* DELIVERY or AVAILABILITY_DESC whose DELIVERY_DATE is a digit string of
\* value below 3 reads as "in stock".
C13_LowDeliveryDateIsInStock ==
    (/\ ret # Unset
     /\ ret.spec_name = HeurekaName
     /\ ChildValue(arg, "AVAILABILITY") = <<>>
     /\ ChildValue(arg, "DELIVERY") = <<>>
     /\ ChildValue(arg, "AVAILABILITY_DESC") = <<>>
     /\ ChildValue(arg, "DELIVERY_DATE") \in {<<48>>, <<49>>, <<50>>})
        => ret.value = InStock

(***************************************************************************)
(* Runs of the fixer page on an uploaded document                          *)
(***************************************************************************)
FixerInit ==
    /\ feed_bytes \in Feeds
    /\ ret = Unset
    /\ out = Unset /\ detected_spec = NotRun
    /\ arg = Unset /\ url_arg = Unset /\ issues = Unset

\* ET.fromstring raises ParseError: st.error and st.stop
FixerParseError ==
    /\ ret = Unset
    /\ ~feed_bytes.well_formed
    /\ ret' = [fn |-> "fixer", xml_ok |-> FALSE]
    /\ UNCHANGED <<feed_bytes, out, detected_spec, arg, url_arg, issues>>

FixerTransform ==
    /\ ret = Unset
    /\ feed_bytes.well_formed
    /\ ret' = [fn |-> "fixer", xml_ok |-> TRUE, result |-> transform(feed_bytes.root)]
    /\ UNCHANGED <<feed_bytes, out, detected_spec, arg, url_arg, issues>>

\* the limits of the "Limit items" input the runs use (0 = all)
ItemLimits == {0, 1}

\* the rest of the run under the options of the form: strict IDs, then
\* normalise, de-duplicate, limit and emit
FixerFinish ==
    /\ ret # Unset /\ ret.fn = "fixer" /\ ret.xml_ok
    /\ \E target \in DOMAIN EMITTERS, do_avail_norm \in BOOLEAN, do_dedupe \in BOOLEAN,
          item_limit \in ItemLimits :
           ret' = [fn |-> "fixer done", xml_ok |-> TRUE, result |-> ret.result,
                   target |-> target, do_avail_norm |-> do_avail_norm,
                   do_dedupe |-> do_dedupe, item_limit |-> item_limit,
                   page |-> finish(ret.result.rows, target, do_avail_norm, do_dedupe,
                                   item_limit)]
    /\ UNCHANGED <<feed_bytes, out, detected_spec, arg, url_arg, issues>>

FixerNext == FixerParseError \/ FixerTransform \/ FixerFinish
FixerSpec == FixerInit /\ [][FixerNext]_vars

\* C20: when detect_source returns UNKNOWN on a document whose root has at
\* least one child element, extract_by_map with the highest-scoring field
\* map returns at least one row.
C20_UnknownFeedYieldsRows ==
    (/\ ret # Unset
     /\ ret.xml_ok
     /\ ret.result.detected = "UNKNOWN"
     /\ feed_bytes.root.children # <<>>)
    => /\ ret.result.used \in DOMAIN ITEM_PATHS
       /\ Len(ret.result.rows) >= 1

(***************************************************************************)
(* Calls of warn_if_price_missing_currency on one price text               *)
(***************************************************************************)
\* str.isalpha() on one character, for code points below 706 and the signs
\* of CurrencyLiteral (the characters price texts of the model hold)
isalpha(c) ==
    c \in (65..90) \cup (97..122) \cup {170, 181, 186} \cup (192..214) \cup (216..246)
              \cup (248..705)

\* the characters of the literal "€$£ Kčzł₺₴₽¥₪"
CurrencyLiteral == {8364, 36, 163, 32, 75, 269, 122, 322, 8378, 8372, 8381, 165, 8362}

warn_if_price_missing_currency(price) ==
    IF price = <<>> THEN FALSE
    ELSE LET has_alpha == \E i \in 1..Len(price) : isalpha(price[i])
             has_symbol == \E i \in 1..Len(price) : price[i] \in CurrencyLiteral
         IN  ~(has_alpha \/ has_symbol)

\* "1", ".", ",", " ", "-", "$", euro sign, "a", c-caron
PriceChars == {49, 46, 44, 32, 45, 36, 8364, 97, 269}
MaxPriceLen == 3
PriceTexts == SeqsUpTo(PriceChars, MaxPriceLen)

PriceInit ==
    /\ arg \in {[price |-> p] : p \in PriceTexts}
    /\ ret = Unset
    /\ feed_bytes = Unset /\ out = Unset /\ detected_spec = NotRun
    /\ url_arg = Unset /\ issues = Unset

CallWarnIfPriceMissingCurrency ==
    /\ arg # Unset /\ ret = Unset
    /\ ret' = [fn |-> "warn_if_price_missing_currency",
               value |-> warn_if_price_missing_currency(arg.price)]
    /\ UNCHANGED <<feed_bytes, out, detected_spec, arg, url_arg, issues>>

PriceNext == CallWarnIfPriceMissingCurrency
PriceSpec == PriceInit /\ [][PriceNext]_vars

\* the currency symbols: euro, dollar, pound, lira, hryvnia, rouble, yen, shekel
CurrencySymbols == {8364, 36, 163, 8378, 8372, 8381, 165, 8362}

\* C21: warn_if_price_missing_currency returns true exactly for the
\* non-empty price texts that hold neither an alphabetic character nor a
\* currency symbol (digits, decimal separators and grouping spaces only),
\* and false for an empty price or one with a letter or a currency symbol.
C21_WarnsExactlyWithoutCurrency ==
    ret # Unset =>
        (ret.value <=>
            /\ arg.price # <<>>
            /\ \A i \in 1..Len(arg.price) :
                  ~isalpha(arg.price[i]) /\ arg.price[i] \notin CurrencySymbols)

(***************************************************************************)
(* Calls of the feed_specs accessors on a parsed document                  *)
(***************************************************************************)
SpecKeys == {SPEC[i].name : i \in 1..Len(SPEC)}

\* names that are no key of SPEC: the empty name, the result of a failed
\* detection, a key in another letter case, a key of the fixer's FIELD_MAPS
UnknownNames == {"", "UNKNOWN", "heureka strict"}

AccessorNames == UnknownNames \cup {HeurekaName, CeneoName}

AccessInit ==
    /\ feed_bytes \in {f \in Feeds : f.well_formed}
    /\ ret = Unset
    /\ out = Unset /\ detected_spec = NotRun
    /\ arg = Unset /\ url_arg = Unset /\ issues = Unset

\* every accessor on one element under one spec name
Accessors(elem, spec_name) ==
    [read_id |-> read_id(elem, spec_name),
     read_link |-> read_link(elem, spec_name),
     read_link_raw |-> read_link_raw(elem, spec_name),
     read_availability |-> read_availability(elem, spec_name),
     gather_primary_image |-> gather_primary_image(elem, spec_name, TRUE),
     gather_primary_image_raw |-> gather_primary_image_raw(elem, spec_name),
     gather_gallery |-> gather_gallery(elem, spec_name, TRUE)]

\* get_item_nodes on the document and the element accessors on each of its
\* elements, under one spec name
CallAccessors ==
    /\ ret = Unset
    /\ \E spec_name \in AccessorNames :
           ret' = [fn |-> "accessors", spec_name |-> spec_name,
                   get_item_nodes |-> get_item_nodes(feed_bytes.root, spec_name),
                   elements |->
                       LET elems == iter(feed_bytes.root)
                       IN  [i \in 1..Len(elems) |-> Accessors(elems[i], spec_name)]]
    /\ UNCHANGED <<feed_bytes, out, detected_spec, arg, url_arg, issues>>

\* get_item_nodes(root, detect_spec(root))
CallGetItemNodesOfDetected ==
    /\ ret = Unset
    /\ ret' = [fn |-> "get_item_nodes", spec_name |-> detect_spec(feed_bytes.root),
               get_item_nodes |-> get_item_nodes(feed_bytes.root,
                                                 detect_spec(feed_bytes.root))]
    /\ UNCHANGED <<feed_bytes, out, detected_spec, arg, url_arg, issues>>

AccessNext == CallAccessors \/ CallGetItemNodesOfDetected
AccessSpec == AccessInit /\ [][AccessNext]_vars

NothingRead ==
    [read_id |-> <<>>, read_link |-> <<>>, read_link_raw |-> <<>>,
     read_availability |-> <<>>, gather_primary_image |-> <<>>,
     gather_primary_image_raw |-> <<>>, gather_gallery |-> <<>>]

\* C22: for a spec name that is no key of SPEC, get_item_nodes and
\* gather_gallery return the empty list and read_id, read_link,
\* read_link_raw, read_availability, gather_primary_image and
\* gather_primary_image_raw return the empty string, on every document and
\* every element of it.
C22_UnknownNameReadsNothing ==
    (ret # Unset /\ ret.fn = "accessors" /\ ret.spec_name \notin SpecKeys) =>
        /\ ret.get_item_nodes = <<>>
        /\ \A i \in 1..Len(ret.elements) : ret.elements[i] = NothingRead

\* an unknown name on a document where the Heureka key finds two items and
\* reads an id, a link and an image from one of them
C22_Witness ==
    /\ ret # Unset /\ ret.fn = "accessors" /\ ret.spec_name = "heureka strict"
    /\ Len(get_item_nodes(feed_bytes.root, HeurekaName)) = 2
    /\ \E e \in Range(iter(feed_bytes.root)) :
          /\ read_id(e, HeurekaName) # <<>>
          /\ read_link(e, HeurekaName) # <<>>
          /\ gather_primary_image(e, HeurekaName, TRUE) # <<>>
    /\ ret.get_item_nodes = <<>>

(***************************************************************************)
(* Properties of the finished fixer run                                    *)
(***************************************************************************)
Finished == ret # Unset /\ ret.fn = "fixer done"
Extracted == ret.result.rows

\* the text of the first child of an emitted item with the given tag
EmittedText(item, tag) ==
    LET hits == SelectSeq(item.children, LAMBDA c : c.tag = tag)
    IN  IF hits = <<>> THEN <<>> ELSE hits[1].text

\* C27: a feed is emitted only if every extracted row has a non-empty
\* stripped id; when a row lacks one the run stops before normalisation,
\* de-duplication and emission, so no emitted item has an empty id.
C27_EmitsOnlyWithEveryId ==
    Finished =>
        /\ ret.page.stopped <=> \E i \in 1..Len(Extracted) : strip(Extracted[i].fields["id"]) = <<>>
        /\ ret.page.stopped => ret.page.feed = <<>> /\ ret.page.rows = Extracted
        /\ \A k \in 1..Len(ret.page.feed) :
              EmittedText(ret.page.feed[k], EMITTERS[ret.target].id) # <<>>

\* a stopped run on a feed whose second row alone lacks the id
C27_Witness ==
    /\ Finished
    /\ ret.page.stopped
    /\ Len(Extracted) = 2
    /\ Extracted[1].fields["id"] # <<>>
    /\ ret.page.missing = <<2>>

\* the (id, encoded link) pair of a fixer row
PairOf(row) == <<row.fields["id"], row.fields["link"]>>

\* equal rows, the availability text (rewritten by the normaliser) apart
SameRow(a, b) ==
    [a EXCEPT !.fields["availability"] = <<>>] = [b EXCEPT !.fields["availability"] = <<>>]

\* the positions of the extracted rows that are the first of their pair
FirstOfPair(rows) ==
    SelectSeq([i \in 1..Len(rows) |-> i],
              LAMBDA i : \A j \in 1..(i - 1) : PairOf(rows[j]) # PairOf(rows[i]))

\* C28: with de-duplication enabled the output rows hold no pair (id, encoded
\* link) twice, each output row is the first extracted row of its pair, the
\* output rows keep the source order, and every first row of a pair is output
\* (so rows sharing an id but differing in link are all kept) up to the item
\* limit, which cuts the rows after the de-duplication
C28_DedupeKeepsFirstOfEachPair ==
    (Finished /\ ~ret.page.stopped /\ ret.do_dedupe) =>
        LET rows == ret.page.rows
            firsts == FirstOfPair(Extracted)
            cut == IF ret.item_limit > 0 /\ ret.item_limit < Len(firsts)
                   THEN ret.item_limit ELSE Len(firsts)
        IN  /\ \A k, l \in 1..Len(rows) : k # l => PairOf(rows[k]) # PairOf(rows[l])
            /\ Len(rows) = cut
            /\ \A k \in 1..Len(rows) : SameRow(rows[k], Extracted[firsts[k]])
            /\ \A k, l \in 1..Len(firsts) : k < l => firsts[k] < firsts[l]
            /\ \A i, j \in 1..Len(Extracted) :
                  (/\ ret.item_limit = 0
                   /\ Extracted[i].fields["id"] = Extracted[j].fields["id"]
                   /\ Extracted[i].fields["link"] # Extracted[j].fields["link"])
                  => \E k, l \in 1..Len(rows) :
                        /\ SameRow(rows[k], Extracted[i])
                        /\ SameRow(rows[l], Extracted[j])

\* a run with de-duplication where the second row repeats the pair of the
\* first and is dropped
C28_Witness ==
    /\ Finished /\ ~ret.page.stopped /\ ret.do_dedupe /\ ret.item_limit = 0
    /\ Len(Extracted) = 2 /\ PairOf(Extracted[1]) = PairOf(Extracted[2])
    /\ Len(ret.page.rows) = 1

(***************************************************************************)
(* Properties of get_item_nodes on the detected spec                       *)
(***************************************************************************)
ItemNodesOfDetected == ret # Unset /\ ret.fn = "get_item_nodes"

\* C29: when detect_spec names a spec other than UNKNOWN for a document,
\* get_item_nodes with that document and that name returns at least one
\* element, and every element it returns is an element of the document
C29_DetectedSpecHasItemNodes ==
    (ItemNodesOfDetected /\ ret.spec_name # "UNKNOWN") =>
        LET elements == Range(iter(feed_bytes.root))
        IN  /\ Len(ret.get_item_nodes) >= 1
            /\ \A k \in 1..Len(ret.get_item_nodes) : ret.get_item_nodes[k] \in elements

\* a detected document whose items the configured paths miss and the
\* fallback by lower-cased local name finds
C29_Witness ==
    /\ ItemNodesOfDetected /\ ret.spec_name # "UNKNOWN"
    /\ get_item_nodes_configured(feed_bytes.root, ret.spec_name) = <<>>
    /\ Len(ret.get_item_nodes) >= 1

====
